---------------------------- MODULE Spec2Model ----------------------------
(***************************************************************************)
(* A model of the newear streaming pipeline: audio capture and chunk       *)
(* assembly (audio/capture.py), the transcription backends                 *)
(* (transcription/whisper_local.py, transcription/remote_whisper.py), the  *)
(* live fan-out loop (main.py), the file sinks (output/file_writer.py) and *)
(* the hook manager (hooks/manager.py).                                    *)
(*                                                                         *)
(* A sample is a pair <<id, amp>>: id is its position in the capture       *)
(* stream (so duplication, loss and reordering are visible), amp is its    *)
(* amplitude in units of 0.0005 (so the energy gate is a computation on    *)
(* the samples).                                                           *)
(*                                                                         *)
(* Spec is the live pipeline of main(); SpecCapture, SpecHooks and         *)
(* SpecTranscriber are AudioCapture, HookManager and a transcriber, each   *)
(* driven by an arbitrary client.                                          *)
(***************************************************************************)
EXTENDS Integers, Sequences, FiniteSets, TLC

\* ------------------------------------------------------------------ bounds
\* samples the capture callback delivers in one run of the capture model
MaxSamples == 6
\* largest frame burst handed to one callback invocation
MaxFrame == 2
\* int(sample_rate * chunk_duration), scaled down
ChunkSize == 2
\* largest sample amplitude, in units of 0.0005
MaxAmp == 2
\* streams one AudioCapture opens in a run
MaxSessions == 2
\* hooks registered with one HookManager
MaxHooks == 3
\* contexts one HookManager creates in a run
MaxContexts == 3
\* chunks one transcriber is handed in a run
MaxLiveChunks == 2
\* WebSocket connections one transcriber opens in a run
MaxConns == 2
\* latencies the performance window keeps (20, scaled down)
WindowSize == 1
\* entries in a hooks configuration
MaxEntries == 2
\* devices sounddevice reports
MaxDevices == 2
\* segments model.transcribe returns for one chunk
MaxSegments == 2
\* samples of a chunk that is encoded
MaxAudio == 2
\* the largest sample of such a chunk, in units of 1 / Unit
MaxNum == 4
\* the latest time a segment starts or ends at
MaxTime == 2

Amps == 0..MaxAmp

\* ------------------------------------------------------------------ state
VARIABLES
    \* AudioCapture
    is_capturing,   \* AudioCapture.is_capturing
    stream,         \* AudioCapture.stream: "none", "open" (started) or
                    \* "idle" (opened, not started)
    audio_queue,    \* AudioCapture.audio_queue: sequence of frames
    gpc,            \* position of the get_audio_chunks generator
    audio_buffer,   \* local audio_buffer of get_audio_chunks
    emitted,        \* history: the chunks handed out (by get_audio_chunks,
                    \* or by the client of a transcriber)
    enqueued,       \* history: every sample the callback has enqueued
    session,        \* history: number of streams opened so far
    devices,        \* AudioDeviceManager.devices
    device,         \* AudioCapture.device, with what setup_device was asked
                    \* and how it ended
    \* HookManager
    hooks,          \* HookManager.hooks: sequence of [id, enabled], with
                    \* the kind of a hook made by the factory
    created,        \* history: what create_hook did for each entry of
                    \* the hooks configuration
    chunk_index,    \* HookManager.chunk_index
    contexts,       \* history: the contexts created: [chunk_index, result]
    last_exec,      \* history: the last execute_hooks call
    last_events,    \* history: what happened inside each built-in hook's
                    \* execute in that call
    \* transcriber (WhisperTranscriber / RemoteWhisperTranscriber)
    is_loaded,      \* transcriber.is_loaded
    model,          \* WhisperTranscriber.model: "none" or "loaded"
    ws,             \* RemoteWhisperTranscriber.ws: 0 (None) or a connection
    ws_running,     \* RemoteWhisperTranscriber.ws_running
    conns,          \* the WebSocketApps created: "connecting", "open", "closed"
    pending,        \* requests the server has not answered: [conn, chunk]
    ws_queue,       \* RemoteWhisperTranscriber.ws_queue
    transcription_times, \* transcriber.transcription_times: the latency of
                    \* a call is named by the number of its chunk
    \* main(): the pipeline thread
    config,         \* [backend, hooks_enabled, rich_ui, api]; api is the
                    \* method the client drives the transcriber through
    pc,             \* position of the pipeline thread
    cur,            \* number of the chunk the stream is working on
    result,         \* the result in hand
    \* sinks
    fw_handle,      \* file_writer.file_handle: "none", "open", "closed"
    entries,        \* file_writer.entries
    ts_lines,       \* lines written to the timestamped file
    cw_handle,      \* continuous_writer.file_handle
    cont_text,      \* texts written to the continuous file
    display_buf,    \* display.transcription_buffer
    batch,          \* history: the entry list of each write_all_formats call
    \* history
    calls,          \* chunks transcribe_audio was called with
    returns,        \* what each transcribe_audio call returned
    posts,          \* POST /transcribe requests issued
    yielded,        \* results transcribe_chunk_stream has yielded
    escaped,        \* an exception left transcribe_audio
    loads,          \* what the last load_model call found and returned
    sinklog,        \* sink operations of the fan-out, in order
    \* WhisperTranscriber.transcribe_audio, the merge of the segments
    segments,       \* transcription_segments: [text, start, end]
    merged,         \* what the merge returned
    \* RemoteWhisperTranscriber._encode_audio, RemoteWhisperServer.decode_audio
    audio_data,     \* the float chunk, each sample in units of 1 / Unit
    payload,        \* what _encode_audio gave: the 16-bit samples and the
                    \* base64 text of the WAV file made of them
    decoded         \* what decode_audio gave: samples in units of 1 / 32768

\* the values the pure functions of the program are applied to; no action
\* of the capture, the hooks or the pipeline touches them
fnVars == <<segments, merged, audio_data, payload, decoded>>

capVars == <<is_capturing, stream, audio_queue, gpc, audio_buffer, emitted,
             enqueued, session, devices, device, fnVars>>

hookVars == <<hooks, created, chunk_index, contexts, last_exec, last_events>>

beVars == <<is_loaded, model, ws, ws_running, conns, pending, ws_queue,
            transcription_times>>

mainVars == <<config, pc, cur, result>>

sinkVars == <<fw_handle, entries, ts_lines, cw_handle, cont_text, display_buf,
              batch>>

logVars == <<calls, returns, posts, yielded, escaped, loads, sinklog>>

liveVars == <<beVars, mainVars, sinkVars, logVars>>

vars == <<capVars, hookVars, liveVars>>

\* ---------------------------------------------------------------- helpers
RECURSIVE Flatten(_)
Flatten(ss) == IF ss = <<>> THEN <<>> ELSE Head(ss) \o Flatten(Tail(ss))

\* s[:n]
Take(s, n) == SubSeq(s, 1, IF n < Len(s) THEN n ELSE Len(s))
\* s[n:]
Drop(s, n) == SubSeq(s, n + 1, Len(s))

\* the frame the stream hands to the callback: n consecutive samples of
\* amplitude a, mono (the stream is opened with channels = 1)
Frame(first, n, a) == [i \in 1..n |-> <<first + i - 1, a>>]

\* ------------------------------------------------------------ AudioCapture
chunk_size == ChunkSize

\* AudioConfig.buffer_size, the blocksize of the stream, scaled down
blocksize == MaxFrame

\* an AudioDevice: whether its name holds 'blackhole', whether it holds
\* 'soundflower', 'loopback' or 'aggregate', and max_input_channels
AudioDevice(bh, kw, ch) == [blackhole |-> bh, keyword |-> kw, max_input_channels |-> ch]

\* setup_device was asked for req (None, or an index) and ended with status
\* ("ok", or the exception raised); index is the place of self.device in the
\* list, 0 for None
Selected(req, status, index) == [req |-> req, status |-> status, index |-> index]

\* find_blackhole_device: the first device whose name holds 'blackhole'
\* (its place in the list), 0 for None
FindBlackholeDevice(ds) ==
    IF \E i \in 1..Len(ds) : ds[i].blackhole
      THEN CHOOSE i \in 1..Len(ds) :
              ds[i].blackhole /\ \A j \in 1..(i - 1) : ~ds[j].blackhole
      ELSE 0

\* the loop of find_system_audio_devices from place i on: the devices with
\* a keyword in their name that are not candidates yet
RECURSIVE KeywordDevices(_, _, _)
KeywordDevices(ds, cands, i) ==
    IF i > Len(ds) THEN cands
    ELSE IF ds[i].keyword /\ \A k \in 1..Len(cands) : cands[k] # i
      THEN KeywordDevices(ds, Append(cands, i), i + 1)
      ELSE KeywordDevices(ds, cands, i + 1)

\* find_system_audio_devices: BlackHole first, then the other virtual
\* devices in list order
FindSystemAudioDevices(ds) ==
    LET bh == FindBlackholeDevice(ds) IN
    KeywordDevices(ds, IF bh # 0 THEN <<bh>> ELSE <<>>, 1)

\* validate_device_for_capture
ValidateDeviceForCapture(d) == d.max_input_channels > 0

\* the first candidate that can capture, 0 for None
RECURSIVE FirstValid(_, _)
FirstValid(ds, cands) ==
    IF cands = <<>> THEN 0
    ELSE IF ValidateDeviceForCapture(ds[Head(cands)]) THEN Head(cands)
    ELSE FirstValid(ds, Tail(cands))

\* get_recommended_device
GetRecommendedDevice(ds) ==
    LET bh == FindBlackholeDevice(ds) IN
    IF bh # 0 /\ ValidateDeviceForCapture(ds[bh]) THEN bh
    ELSE FirstValid(ds, FindSystemAudioDevices(ds))

\* device_index = None
AutoDetect == <<>>

\* what setup_device(req) ends with; req is AutoDetect or <<i>> for the device
\* index i, which counts from 0
SetupOutcome(ds, req) ==
    LET chosen == IF req = AutoDetect THEN GetRecommendedDevice(ds)
                  ELSE IF req[1] < Len(ds) THEN req[1] + 1 ELSE 0
    IN IF chosen = 0
         THEN Selected(req, IF req = AutoDetect THEN "RuntimeError" ELSE "ValueError", 0)
         ELSE IF ~ValidateDeviceForCapture(ds[chosen])
           THEN Selected(req, "RuntimeError", chosen)
           ELSE Selected(req, "ok", chosen)

\* setup_device(device_index)
SetupDevice(req) ==
    /\ device' = SetupOutcome(devices, req)
    /\ UNCHANGED <<is_capturing, stream, audio_queue, gpc, audio_buffer, emitted,
                   enqueued, session, devices, fnVars>>

\* the stream side of a new AudioCapture
StreamInit ==
    /\ is_capturing = FALSE
    /\ stream = "none"
    /\ audio_queue = <<>>
    /\ gpc = "new"
    /\ audio_buffer = <<>>
    /\ emitted = <<>>
    /\ enqueued = <<>>
    /\ session = 0

\* nothing has been encoded or decoded
NoPayload == [status |-> "unset", pcm |-> <<>>, nchannels |-> 0,
              sampwidth |-> 0, b64 |-> <<>>]
NoAudio == [status |-> "unset", samples |-> <<>>]

\* no audio is being encoded
CodecIdle ==
    /\ audio_data = <<>>
    /\ payload = NoPayload
    /\ decoded = NoAudio

\* no pure function is being applied
FnIdle ==
    /\ segments = <<>>
    /\ merged = [status |-> "unset", text |-> <<>>, start_time |-> 0,
                 end_time |-> 0]
    /\ CodecIdle

\* the source of the capture specifications: one BlackHole device, found by
\* auto-detection
CaptureInit ==
    /\ FnIdle
    /\ devices = <<AudioDevice(TRUE, FALSE, 2)>>
    /\ device = Selected(AutoDetect, "ok", 1)
    /\ StreamInit

\* _audio_callback: indata has one column, flatten() gives the frame, which
\* is put on the queue. The stream invokes it only while it is open.
AudioCallback(n, a, limit) ==
    /\ stream = "open"
    /\ Len(enqueued) + n <= limit
    /\ LET frame == Frame(Len(enqueued) + 1, n, a) IN
         /\ audio_queue' = Append(audio_queue, frame)
         /\ enqueued' = enqueued \o frame
    /\ UNCHANGED <<is_capturing, stream, gpc, audio_buffer, emitted, session, devices, device, fnVars>>

\* what the try block of start_capture can do: sd.InputStream(...) raises,
\* or it returns the stream and stream.start() raises, or both succeed
StartOutcomes == {"open_fails", "start_fails", "started"}

\* start_capture: a no-op returning True when already capturing; otherwise
\* opens the stream and starts it. self.stream is assigned before start() is
\* called, so a failing start() leaves the opened stream ("idle") behind.
StartCapture(o) ==
    /\ is_capturing \/ session < MaxSessions
    /\ IF is_capturing
         THEN UNCHANGED <<is_capturing, stream, session>>
         ELSE IF o = "started"
           THEN /\ stream' = "open"
                /\ is_capturing' = TRUE
                /\ session' = session + 1
           ELSE IF o = "start_fails"
             THEN /\ stream' = "idle"
                  /\ UNCHANGED <<is_capturing, session>>
             ELSE UNCHANGED <<is_capturing, stream, session>>
    /\ UNCHANGED <<audio_queue, gpc, audio_buffer, emitted, enqueued, devices,
                   device, fnVars>>

\* stop_capture: a no-op when not capturing; otherwise clears the flag and
\* stops and closes the stream.
StopCapture ==
    /\ IF ~is_capturing
         THEN UNCHANGED <<is_capturing, stream>>
         ELSE /\ is_capturing' = FALSE
              /\ stream' = "none"
    /\ UNCHANGED <<audio_queue, gpc, audio_buffer, emitted, enqueued, session, devices, device, fnVars>>

\* get_audio_chunks, first pull: audio_buffer = [] and on to the while test.
\* The callers create the generator after start_capture has succeeded.
GenBegin ==
    /\ gpc = "new"
    /\ is_capturing
    /\ audio_buffer' = <<>>
    /\ gpc' = "while"
    /\ UNCHANGED <<is_capturing, stream, audio_queue, emitted, enqueued, session, devices, device, fnVars>>

\* a while test that never sees the flag cleared
GenWhile_forever ==
    /\ gpc = "while"
    /\ gpc' = "get"
    /\ UNCHANGED <<is_capturing, stream, audio_queue, audio_buffer, emitted,
                   enqueued, session, devices, device, fnVars>>

\* while self.is_capturing
GenWhile ==
    /\ gpc = "while"
    /\ gpc' = IF is_capturing THEN "get" ELSE "done"
    /\ UNCHANGED <<is_capturing, stream, audio_queue, audio_buffer, emitted,
                   enqueued, session, devices, device, fnVars>>

\* audio_queue.get(timeout=0.1): a frame is appended to the buffer, or the
\* wait times out on an empty queue (queue.Empty: continue).
GenGet ==
    /\ gpc = "get"
    /\ IF audio_queue # <<>>
         THEN /\ audio_buffer' = audio_buffer \o Head(audio_queue)
              /\ audio_queue' = Tail(audio_queue)
              /\ gpc' = "inner"
         ELSE /\ gpc' = "while"
              /\ UNCHANGED <<audio_buffer, audio_queue>>
    /\ UNCHANGED <<is_capturing, stream, emitted, enqueued, session, devices, device, fnVars>>

\* the length the inner loop compares with chunk_size
InnerReady(buf) == Len(buf) >= chunk_size

\* the slice the inner loop yields
YieldSlice(buf) == Take(buf, chunk_size)

\* what the inner loop keeps after the yield
KeepSlice(buf) == Drop(buf, chunk_size)

\* while len(audio_buffer) >= chunk_size: yield audio_buffer[:chunk_size]
GenInner ==
    /\ gpc = "inner"
    /\ IF InnerReady(audio_buffer)
         THEN /\ emitted' = Append(emitted, YieldSlice(audio_buffer))
              /\ gpc' = "yield"
         ELSE /\ gpc' = "while"
              /\ UNCHANGED emitted
    /\ UNCHANGED <<is_capturing, stream, audio_queue, audio_buffer, enqueued,
                   session, devices, device, fnVars>>

\* the consumer pulls again: audio_buffer = audio_buffer[chunk_size:]
GenResume ==
    /\ gpc = "yield"
    /\ audio_buffer' = KeepSlice(audio_buffer)
    /\ gpc' = "inner"
    /\ UNCHANGED <<is_capturing, stream, audio_queue, emitted, enqueued, session, devices, device, fnVars>>

\* ------------------------------------------------------------- HookManager
\* What one call of a hook's execute does: return a successful HookResult,
\* return a failed HookResult, or raise.
Outcomes == {"ok", "fail", "raise"}

\* no hooks configuration has been processed
NotCreated == [done |-> FALSE, enabled |-> TRUE, log |-> <<>>]

HookInit ==
    /\ hooks = <<>>
    /\ created = NotCreated
    /\ last_events = <<>>
    /\ chunk_index = 0
    /\ contexts = <<>>
    /\ last_exec = [called |-> FALSE, ctx |-> 0, hooks |-> <<>>, outs |-> <<>>,
                    results |-> <<>>, invoked |-> <<>>]

\* (mutant) the hook is inserted at the head of the list
AppendHook_front(hs, h) == <<h>> \o hs

\* self.hooks.append(hook)
AppendHook(hs, h) == Append(hs, h)

\* register_hook: the hook is tagged with its registration number; enabled
\* is what its is_enabled() returns (config.get('enabled', True)).
RegisterHook(enabled) ==
    /\ Len(hooks) < MaxHooks
    /\ hooks' = AppendHook(hooks, [id |-> Len(hooks) + 1, enabled |-> enabled])
    /\ UNCHANGED <<created, chunk_index, contexts, last_exec, last_events>>

\* (mutant) the counter is incremented before the context is built
CreateContext_preincrement(r) ==
    /\ chunk_index < MaxContexts
    /\ contexts' = Append(contexts, [chunk_index |-> chunk_index + 1, result |-> r])
    /\ chunk_index' = chunk_index + 1
    /\ UNCHANGED <<hooks, created, last_exec, last_events>>

\* create_context: the context carries the current chunk_index, then the
\* counter is incremented.
CreateContext(r) ==
    /\ chunk_index < MaxContexts
    /\ contexts' = Append(contexts, [chunk_index |-> chunk_index, result |-> r])
    /\ chunk_index' = chunk_index + 1
    /\ UNCHANGED <<hooks, created, last_exec, last_events>>

\* the HookResult one enabled hook contributes: the one it returned, or the
\* error_result built in the except branch
ResultOf(h, out) ==
    [hook |-> h.id, success |-> (out = "ok"), raised |-> (out = "raise")]

\* (mutant) the except branch leaves the loop after recording the failure
RECURSIVE RunHooks_abort(_, _, _)
RunHooks_abort(hs, outs, i) ==
    IF i > Len(hs) THEN [results |-> <<>>, invoked |-> <<>>]
    ELSE IF ~hs[i].enabled THEN RunHooks_abort(hs, outs, i + 1)
    ELSE IF outs[i] = "raise"
      THEN [results |-> <<ResultOf(hs[i], outs[i])>>, invoked |-> <<hs[i].id>>]
      ELSE LET rest == RunHooks_abort(hs, outs, i + 1) IN
           [results |-> <<ResultOf(hs[i], outs[i])>> \o rest.results,
            invoked |-> <<hs[i].id>> \o rest.invoked]

\* the for loop of execute_hooks from position i on: a disabled hook is
\* skipped, an enabled one is invoked and its result appended, and the loop
\* goes on to the next hook whatever happened.
RECURSIVE RunHooks(_, _, _)
RunHooks(hs, outs, i) ==
    IF i > Len(hs) THEN [results |-> <<>>, invoked |-> <<>>]
    ELSE LET rest == RunHooks(hs, outs, i + 1) IN
         IF ~hs[i].enabled THEN rest
         ELSE [results |-> <<ResultOf(hs[i], outs[i])>> \o rest.results,
               invoked |-> <<hs[i].id>> \o rest.invoked]

\* what the hooks of a list can do in one call: a disabled hook is not
\* invoked, so it does nothing ("ok" stands for that)
OutcomesOf(hs) ==
    {outs \in [1..Len(hs) -> Outcomes] :
        \A i \in 1..Len(hs) : ~hs[i].enabled => outs[i] = "ok"}

\* execute_hooks(context) with a context made by create_context
ExecuteHooks(c, outs) ==
    /\ c \in 1..Len(contexts)
    /\ LET run == RunHooks(hooks, outs, 1) IN
         last_exec' = [called |-> TRUE, ctx |-> contexts[c].chunk_index, hooks |-> hooks, outs |-> outs,
                       results |-> run.results, invoked |-> run.invoked]
    /\ UNCHANGED <<hooks, created, chunk_index, contexts>>

\* ------------------------------------------------------------ transcriber
Backends == {"local", "http", "websocket"}

\* a text is a sequence of tokens, " " being white space
Texts == {<<>>, <<" ">>, <<"w", " ">>}

\* str.strip()
RECURSIVE LStrip(_)
LStrip(t) == IF t # <<>> /\ Head(t) = " " THEN LStrip(Tail(t)) ELSE t
RECURSIVE RStrip(_)
RStrip(t) ==
    IF t # <<>> /\ t[Len(t)] = " " THEN RStrip(SubSeq(t, 1, Len(t) - 1)) ELSE t
Strip(t) == RStrip(LStrip(t))

\* " ".join(texts)
RECURSIVE Join(_)
Join(ts) ==
    IF ts = <<>> THEN <<>>
    ELSE IF Len(ts) = 1 THEN ts[1]
    ELSE ts[1] \o <<" ">> \o Join(Tail(ts))

\* None, and a TranscriptionResult with its text; src is the chunk the text
\* was computed from
None == [none |-> TRUE, src |-> 0, text |-> <<>>]
TranscriptionResult(src, text) == [none |-> FALSE, src |-> src, text |-> text]

\* sum(chunk ** 2)
RECURSIVE SumSq(_)
SumSq(chunk) ==
    IF chunk = <<>> THEN 0
    ELSE Head(chunk)[2] * Head(chunk)[2] + SumSq(Tail(chunk))

\* the gate's threshold 0.001, in units of 0.0005
RmsThreshold == 2

\* a gate that lets every chunk through
GateSkips_never(chunk) == FALSE

\* a gate that skips pure silence only
GateSkips_silence(chunk) == SumSq(chunk) = 0

\* rms = sqrt(mean(chunk ** 2)); rms < 0.001, both sides squared and
\* multiplied by len(chunk)
GateSkips(chunk) == SumSq(chunk) < RmsThreshold * RmsThreshold * Len(chunk)

\* the exception classes the model raises; all derive from Exception
IsSubclass(k, c) == k = c \/ c = "Exception"

\* the except clauses around the body of transcribe_audio
LocalCatches == {"Exception"}
\* the remote clauses without the last one
RemoteCatches_named == {"Timeout", "ConnectionError"}
RemoteCatches == {"Timeout", "ConnectionError", "Exception"}
Catches == IF config.backend = "local" THEN LocalCatches ELSE RemoteCatches
Caught(k) == \E c \in Catches : IsSubclass(k, c)

\* _decode_response
DecodeResponse(resp) ==
    IF ~resp.success THEN None
    ELSE IF resp.text = <<>> THEN None
    ELSE TranscriptionResult(resp.src, resp.text)

\* what the server can answer for chunk c
Responses(c) ==
    {[success |-> FALSE, src |-> c, text |-> <<>>]}
        \cup {[success |-> TRUE, src |-> c, text |-> t] : t \in Texts}

BackendInit ==
    /\ is_loaded = FALSE
    /\ model = "none"
    /\ ws = 0
    /\ ws_running = FALSE
    /\ conns = <<>>
    /\ pending = <<>>
    /\ ws_queue = <<>>
    /\ transcription_times = <<>>

LogInit ==
    /\ calls = <<>>
    /\ returns = <<>>
    /\ posts = <<>>
    /\ yielded = <<>>
    /\ escaped = FALSE
    /\ loads = <<>>
    /\ sinklog = <<>>

SinkInit ==
    /\ fw_handle = "none"
    /\ entries = <<>>
    /\ ts_lines = <<>>
    /\ cw_handle = "none"
    /\ cont_text = <<>>
    /\ display_buf = <<>>
    /\ batch = <<>>

\* the pipeline thread is not running (the component specifications)
LiveIdle ==
    /\ BackendInit /\ LogInit /\ SinkInit
    /\ config = [backend |-> "local", hooks_enabled |-> FALSE,
                 rich_ui |-> FALSE, api |-> "stream"]
    /\ pc = "idle"
    /\ cur = 0
    /\ result = None

\* where transcribe_audio returns to: transcribe_chunk_stream, or a client
\* that called it itself
ReturnTo == IF config.api = "audio" THEN "called" ELSE "t_ret"

\* transcribe_audio returns r; fail names the failure behind a None
Return(r, fail) ==
    /\ result' = r
    /\ returns' = Append(returns, [chunk |-> cur, res |-> r, fail |-> fail])
    /\ pc' = ReturnTo
    /\ UNCHANGED escaped

\* an exception of class k is raised inside the try block of transcribe_audio
Raise(k) ==
    IF Caught(k)
      THEN Return(None, k)
      ELSE /\ escaped' = TRUE
           /\ pc' = "fatal"
           /\ UNCHANGED <<result, returns>>

\* whether a load_model call loads the model or probes the server: the
\* local backend returns at once when it is loaded, the remote one probes
\* at every call
LoadProbes == ~(config.backend = "local" /\ is_loaded)

\* what load_model returns when its load or probe, if any, has outcome ok
LoadReturns(ok) == IF LoadProbes THEN ok ELSE TRUE

\* (mutant) a load_model that marks the remote backend loaded whatever the
\* probe says
LoadModel_marks(ok) ==
    /\ IF config.backend = "local"
         THEN IF is_loaded THEN UNCHANGED <<is_loaded, model>>
              ELSE IF ok THEN is_loaded' = TRUE /\ model' = "loaded"
                         ELSE UNCHANGED <<is_loaded, model>>
         ELSE /\ is_loaded' = TRUE
              /\ UNCHANGED model
    /\ loads' = <<[was_loaded |-> is_loaded,
                   probed |-> LoadProbes,
                   ret |-> LoadReturns(ok)]>>

\* load_model: a second call of the local backend returns True at once; the
\* remote backend probes the server at every call
LoadModel(ok) ==
    /\ IF config.backend = "local"
         THEN IF is_loaded THEN UNCHANGED <<is_loaded, model>>
              ELSE IF ok THEN is_loaded' = TRUE /\ model' = "loaded"
                         ELSE UNCHANGED <<is_loaded, model>>
         ELSE /\ is_loaded' = (is_loaded \/ ok)
              /\ UNCHANGED model
    /\ loads' = <<[was_loaded |-> is_loaded,
                   probed |-> LoadProbes,
                   ret |-> LoadReturns(ok)]>>

\* transcribe_chunk_stream, first pull: load the model if need be, and end
\* the stream when that fails
StreamBegin(ok) ==
    /\ pc = "stream"
    /\ IF is_loaded
         THEN pc' = "pull" /\ UNCHANGED <<is_loaded, model, loads>>
         ELSE /\ LoadModel(ok)
              /\ pc' = IF LoadReturns(ok) THEN "pull" ELSE "returned"
    /\ UNCHANGED <<capVars, hookVars, ws, ws_running, conns, pending, ws_queue,
                   config, cur, result, sinkVars, calls, returns, posts,
                   yielded, escaped, sinklog, transcription_times>>

\* for chunk in audio_chunks: the energy gate
Gate ==
    /\ pc = "gate"
    /\ IF GateSkips(emitted[cur])
         THEN pc' = "resume" /\ UNCHANGED calls
         ELSE pc' = "t_enter" /\ calls' = Append(calls, cur)
    /\ UNCHANGED <<capVars, hookVars, beVars, config, cur, result, sinkVars,
                   returns, posts, yielded, escaped, sinklog, loads>>

\* transcribe_audio: if not self.is_loaded: if not self.load_model(): return None
TranscribeEnter(ok) ==
    /\ pc = "t_enter"
    /\ IF is_loaded
         THEN /\ pc' = "t_body"
              /\ UNCHANGED <<is_loaded, model, loads, result, returns, escaped>>
         ELSE /\ LoadModel(ok)
              /\ IF LoadReturns(ok)
                   THEN pc' = "t_body" /\ UNCHANGED <<result, returns, escaped>>
                   ELSE Return(None, "load")
    /\ UNCHANGED <<capVars, hookVars, ws, ws_running, conns, pending, ws_queue,
                   config, cur, sinkVars, calls, posts, yielded, sinklog,
                   transcription_times>>

\* the segment lists model.transcribe can return
SegLists == {<<>>, << <<" ">> >>, << <<"w", " ">> >>, << <<"w">>, <<" ", "w">> >>}

\* the text of the merged result
FullText(segs) == Join([i \in 1..Len(segs) |-> Strip(segs[i])])

\* the texts of a list of segments
SegmentTexts(segs) == [i \in 1..Len(segs) |-> segs[i].text]

\* a merge that takes the texts as they are
MergedText_raw(segs) == Join(SegmentTexts(segs))

\* full_text = " ".join([segment.text.strip() for segment in segments])
MergedText(segs) == FullText(SegmentTexts(segs))

\* transcribe_audio from 'transcription_segments = list(segments)' on: None
\* for no segment and for a blank text, else one result with the merged
\* text and the time extent
MergeSegments(segs) ==
    IF segs = <<>> \/ Strip(MergedText(segs)) = <<>>
      THEN [status |-> "None", text |-> <<>>, start_time |-> 0, end_time |-> 0]
      ELSE [status |-> "result",
            text |-> MergedText(segs),
            start_time |-> segs[1].start,
            end_time |-> segs[Len(segs)].end]

\* model.transcribe has returned the segments, which are merged
Merge ==
    /\ merged.status = "unset"
    /\ merged' = MergeSegments(segments)
    /\ UNCHANGED <<is_capturing, stream, audio_queue, gpc, audio_buffer,
                   emitted, enqueued, session, devices, device, segments,
                   audio_data, payload, decoded>>

\* ------------------------------------------ the audio encoding (remote)
\* a float sample x is the integer x * Unit: 1.0 is Unit
Unit == 2

\* the factor of the conversion to 16-bit PCM, and the server's divisor
PcmScale == 32767
ServerScale == 32768

Abs(n) == IF n < 0 THEN -n ELSE n

\* int(x / y) for y > 0: the fraction is cut off towards zero
TruncDiv(x, y) == IF x >= 0 THEN x \div y ELSE -((-x) \div y)

\* audio_data.max(), audio_data.min(), np.max(np.abs(audio_data))
MaxOf(xs) == CHOOSE m \in {xs[i] : i \in 1..Len(xs)} :
                \A i \in 1..Len(xs) : xs[i] <= m
MinOf(xs) == CHOOSE m \in {xs[i] : i \in 1..Len(xs)} :
                \A i \in 1..Len(xs) : xs[i] >= m
Peak(xs) == MaxOf([i \in 1..Len(xs) |-> Abs(xs[i])])

\* (mutant) an encoder that never rescales
Rescales_never(xs) == FALSE

\* if audio_data.max() > 1.0 or audio_data.min() < -1.0
Rescales(xs) == MaxOf(xs) > Unit \/ MinOf(xs) < -Unit

\* astype(np.int16) of a whole number: the low 16 bits, as numpy does for a
\* number outside the range
ToInt16(v) == ((v + 32768) % 65536) - 32768

\* (audio_data * 32767).astype(np.int16), after the rescaling if any
ToPcm(xs) ==
    LET d == IF Rescales(xs) THEN Peak(xs) ELSE Unit IN
    [i \in 1..Len(xs) |-> ToInt16(TruncDiv(xs[i] * PcmScale, d))]

\* ndarray.tobytes() of int16 samples: two bytes each, low byte first
RECURSIVE ToBytes(_)
ToBytes(qs) ==
    IF qs = <<>> THEN <<>>
    ELSE LET u == (Head(qs) + 65536) % 65536 IN
         <<u % 256, u \div 256>> \o ToBytes(Tail(qs))

\* np.frombuffer(frames, dtype=np.int16)
RECURSIVE FromBytes(_)
FromBytes(bs) ==
    IF Len(bs) < 2 THEN <<>>
    ELSE LET u == bs[1] + 256 * bs[2] IN
         <<IF u >= 32768 THEN u - 65536 ELSE u>> \o FromBytes(Tail(Tail(bs)))

\* the padding character of base64; the other characters are 0..63
Pad == 64

\* base64.b64encode: three bytes give four characters, and the last one or
\* two bytes are padded
RECURSIVE B64Encode(_)
B64Encode(bs) ==
    IF bs = <<>> THEN <<>>
    ELSE IF Len(bs) = 1
      THEN <<bs[1] \div 4, (bs[1] % 4) * 16, Pad, Pad>>
    ELSE IF Len(bs) = 2
      THEN <<bs[1] \div 4, (bs[1] % 4) * 16 + bs[2] \div 16,
             (bs[2] % 16) * 4, Pad>>
    ELSE <<bs[1] \div 4, (bs[1] % 4) * 16 + bs[2] \div 16,
           (bs[2] % 16) * 4 + bs[3] \div 64, bs[3] % 64>>
           \o B64Encode(SubSeq(bs, 4, Len(bs)))

\* base64.b64decode
RECURSIVE B64Decode(_)
B64Decode(cs) ==
    IF Len(cs) < 4 THEN <<>>
    ELSE LET b1 == cs[1] * 4 + cs[2] \div 16
             b2 == (cs[2] % 16) * 16 + cs[3] \div 4
             b3 == (cs[3] % 4) * 64 + cs[4]
         IN IF cs[3] = Pad THEN <<b1>>
            ELSE IF cs[4] = Pad THEN <<b1, b2>>
            ELSE <<b1, b2, b3>> \o B64Decode(SubSeq(cs, 5, Len(cs)))

\* _encode_audio for a float chunk: max() of an empty array raises; else the
\* 16-bit samples go into a mono WAV file with two bytes a sample (the
\* header is kept as fields), and the file into base64
EncodeAudio(xs) ==
    IF xs = <<>>
      THEN [NoPayload EXCEPT !.status = "ValueError"]
      ELSE [status |-> "ok", pcm |-> ToPcm(xs), nchannels |-> 1,
            sampwidth |-> 2, b64 |-> B64Encode(ToBytes(ToPcm(xs)))]

\* decode_audio: the frames of the WAV file as int16, divided by 32768 (so
\* a decoded sample is kept as its numerator); other sample widths and
\* stereo do not come from this client
DecodeAudio(p) ==
    IF p.sampwidth = 2 /\ p.nchannels = 1
      THEN [status |-> "ok", samples |-> FromBytes(B64Decode(p.b64))]
      ELSE [NoAudio EXCEPT !.status = "other"]

\* the client encodes the chunk
Encode ==
    /\ payload.status = "unset"
    /\ payload' = EncodeAudio(audio_data)
    /\ UNCHANGED <<is_capturing, stream, audio_queue, gpc, audio_buffer,
                   emitted, enqueued, session, devices, device, segments,
                   merged, audio_data, decoded>>

\* the server decodes the payload of the request
Decode ==
    /\ payload.status = "ok"
    /\ decoded.status = "unset"
    /\ decoded' = DecodeAudio(payload)
    /\ UNCHANGED <<is_capturing, stream, audio_queue, gpc, audio_buffer,
                   emitted, enqueued, session, devices, device, segments,
                   merged, audio_data, payload>>

\* self.transcription_times[-20:]
Window(ts) ==
    IF Len(ts) > WindowSize
      THEN SubSeq(ts, Len(ts) - WindowSize + 1, Len(ts))
      ELSE ts

\* transcription_times.append(t), then keep only the recent times
RecordTimeTrimmed(ts, t) == Window(Append(ts, t))

\* transcription_times.append(t) alone
RecordTime(ts, t) == Append(ts, t)

\* WhisperTranscriber.transcribe_audio, the try block: model.transcribe
\* raises, or returns segments that are merged into one result, whose
\* latency is recorded
TranscribeLocal(raises, segs) ==
    /\ pc = "t_body"
    /\ config.backend = "local"
    /\ IF raises THEN Raise("RuntimeError") /\ UNCHANGED transcription_times
       ELSE IF segs = <<>>
         THEN Return(None, "nosegments") /\ UNCHANGED transcription_times
       ELSE IF Strip(FullText(segs)) = <<>>
         THEN Return(None, "blank") /\ UNCHANGED transcription_times
       ELSE /\ Return(TranscriptionResult(cur, FullText(segs)), "")
            /\ transcription_times' =
                  RecordTimeTrimmed(transcription_times, cur)
    /\ UNCHANGED <<capVars, hookVars, is_loaded, model, ws, ws_running, conns,
                   pending, ws_queue, config, cur, sinkVars, calls, posts,
                   yielded, sinklog, loads>>

\* the statuses the server answers with
Statuses == {200, 201, 500}

\* what requests.post can do: raise, or return a response with a status
\* and a body; the body is JSON with success false or with a text, or it is
\* not JSON at all and response.json() raises
HttpOutcomes ==
    {[exc |-> k, status |-> 0, success |-> FALSE, text |-> <<>>] :
        k \in {"Timeout", "ConnectionError"}}
    \cup {[exc |-> "", status |-> st, success |-> FALSE, text |-> <<>>] :
        st \in Statuses}
    \cup {[exc |-> "", status |-> st, success |-> TRUE, text |-> t] :
        st \in Statuses, t \in Texts}
    \cup {[exc |-> "JSONDecodeError", status |-> st, success |-> FALSE,
           text |-> <<>>] : st \in Statuses}

\* a client that reads the body whatever the status
HttpAccepts_any(status) == TRUE

\* whether transcribe_audio reads the body of the response
HttpAccepts(status) == status = 200

\* what transcribe_audio makes of a response: status 200 is decoded, any
\* other status gives None
HttpResult(o, c) ==
    IF HttpAccepts(o.status)
      THEN DecodeResponse([success |-> o.success, src |-> c, text |-> o.text])
      ELSE None

\* (mutant) a client that sends the request again when it has timed out
TranscribeHttp_retry(encode_fails, o) ==
    /\ pc = "t_body"
    /\ config.backend = "http"
    /\ IF encode_fails
         THEN Raise("ValueError") /\ UNCHANGED <<posts, transcription_times>>
         ELSE /\ posts' = Append(posts, [chunk |-> cur, exc |-> o.exc,
                                         status |-> o.status])
              /\ IF o.exc = "Timeout"
                   THEN UNCHANGED <<pc, result, returns, escaped,
                                    transcription_times>>
                 ELSE IF o.exc = "ConnectionError"
                   THEN Raise(o.exc) /\ UNCHANGED transcription_times
                 ELSE IF ~HttpAccepts(o.status)
                   THEN /\ Return(HttpResult(o, cur), "status")
                        /\ UNCHANGED transcription_times
                 ELSE IF o.exc # ""
                   THEN Raise(o.exc) /\ UNCHANGED transcription_times
                 ELSE /\ Return(HttpResult(o, cur), "")
                      /\ transcription_times' =
                            IF HttpResult(o, cur).none
                              THEN transcription_times
                              ELSE RecordTimeTrimmed(transcription_times, cur)
    /\ UNCHANGED <<capVars, hookVars, is_loaded, model, ws, ws_running, conns,
                   pending, ws_queue, config, cur, sinkVars, calls, yielded,
                   sinklog, loads>>

\* RemoteWhisperTranscriber.transcribe_audio, protocol http: encoding fails
\* (no request is made), or one POST is made and raises or is answered
TranscribeHttp(encode_fails, o) ==
    /\ pc = "t_body"
    /\ config.backend = "http"
    /\ IF encode_fails
         THEN Raise("ValueError") /\ UNCHANGED <<posts, transcription_times>>
         ELSE /\ posts' = Append(posts, [chunk |-> cur, exc |-> o.exc,
                                         status |-> o.status])
              /\ IF o.exc \in {"Timeout", "ConnectionError"}
                   THEN Raise(o.exc) /\ UNCHANGED transcription_times
                 ELSE IF ~HttpAccepts(o.status)
                   THEN /\ Return(HttpResult(o, cur), "status")
                        /\ UNCHANGED transcription_times
                 ELSE IF o.exc # ""
                   THEN Raise(o.exc) /\ UNCHANGED transcription_times
                 ELSE /\ Return(HttpResult(o, cur), "")
                      /\ transcription_times' =
                            IF HttpResult(o, cur).none
                              THEN transcription_times
                              ELSE RecordTimeTrimmed(transcription_times, cur)
    /\ UNCHANGED <<capVars, hookVars, is_loaded, model, ws, ws_running, conns,
                   pending, ws_queue, config, cur, sinkVars, calls, yielded,
                   sinklog, loads>>

\* RemoteWhisperTranscriber.transcribe_audio, protocol websocket: encoding
\* fails, or the connection is in place, or _setup_websocket creates a
\* WebSocketApp and starts its thread
WsEnter(encode_fails) ==
    /\ pc = "t_body"
    /\ config.backend = "websocket"
    /\ IF encode_fails
         THEN Raise("ValueError") /\ UNCHANGED <<ws, conns>>
         ELSE IF ws_running
           THEN /\ pc' = "ws_send"
                /\ UNCHANGED <<ws, conns, result, returns, escaped>>
           ELSE /\ Len(conns) < MaxConns
                /\ conns' = Append(conns, "connecting")
                /\ ws' = Len(conns) + 1
                /\ pc' = "ws_waitopen"
                /\ UNCHANGED <<result, returns, escaped>>
    /\ UNCHANGED <<capVars, hookVars, is_loaded, model, ws_running, pending,
                   ws_queue, config, cur, sinkVars, calls, posts, yielded, sinklog, loads,
                   transcription_times>>

\* _setup_websocket, the wait: ws_running has become true, or the five
\* seconds are over and it returns ws_running (False: return None)
WsWaitOpen ==
    /\ pc = "ws_waitopen"
    /\ IF ws_running
         THEN pc' = "ws_send" /\ UNCHANGED <<result, returns, escaped>>
         ELSE Return(None, "setup")
    /\ UNCHANGED <<capVars, hookVars, beVars, config, cur, sinkVars, calls,
                   posts, yielded, sinklog, loads>>

\* self.ws.send(...): the request goes out on an open connection, and send
\* raises on any other; self.ws is None after a cleanup that has left
\* ws_running set
WsSend ==
    /\ pc = "ws_send"
    /\ IF ws = 0
         THEN Raise("AttributeError") /\ UNCHANGED pending
         ELSE IF conns[ws] = "open"
         THEN /\ pending' = Append(pending, [conn |-> ws, chunk |-> cur])
              /\ pc' = "ws_wait"
              /\ UNCHANGED <<result, returns, escaped>>
         ELSE Raise("WebSocketError") /\ UNCHANGED pending
    /\ UNCHANGED <<capVars, hookVars, is_loaded, model, ws, ws_running, conns,
                   ws_queue, config, cur, sinkVars, calls, posts, yielded, sinklog, loads,
                   transcription_times>>

\* a wait that gives the connection up when nothing has arrived in time
WsWait_closing ==
    /\ pc = "ws_wait"
    /\ IF ws_queue # <<>>
         THEN /\ Return(Head(ws_queue), "") /\ ws_queue' = Tail(ws_queue)
              /\ transcription_times' = RecordTime(transcription_times, cur)
              /\ UNCHANGED <<ws, ws_running, conns>>
         ELSE /\ Return(None, "ws_timeout")
              /\ UNCHANGED <<ws_queue, transcription_times>>
              /\ conns' = [conns EXCEPT ![ws] = "closed"]
              /\ ws_running' = FALSE
              /\ ws' = 0
    /\ UNCHANGED <<capVars, hookVars, is_loaded, model, pending, config, cur,
                   sinkVars, calls, posts, yielded, sinklog, loads>>

\* self.ws_queue.get(timeout=...): the head of the queue, or queue.Empty
\* when nothing has arrived in time
WsWait ==
    /\ pc = "ws_wait"
    /\ IF ws_queue # <<>>
         THEN /\ Return(Head(ws_queue), "") /\ ws_queue' = Tail(ws_queue)
              /\ transcription_times' = RecordTime(transcription_times, cur)
         ELSE /\ Return(None, "ws_timeout")
              /\ UNCHANGED <<ws_queue, transcription_times>>
    /\ UNCHANGED <<capVars, hookVars, is_loaded, model, ws, ws_running, conns,
                   pending, config, cur, sinkVars, calls, posts, yielded, sinklog, loads>>

\* reader thread of connection k: on_open
WsOpen(k) ==
    /\ conns[k] = "connecting"
    /\ conns' = [conns EXCEPT ![k] = "open"]
    /\ ws_running' = TRUE
    /\ UNCHANGED <<capVars, hookVars, is_loaded, model, ws, pending, ws_queue,
                   mainVars, sinkVars, logVars,
                   transcription_times>>

\* reader thread of connection k: the connection fails or is lost; on_close
WsClosed(k) ==
    /\ conns[k] \in {"connecting", "open"}
    /\ conns' = [conns EXCEPT ![k] = "closed"]
    /\ ws_running' = FALSE
    /\ pending' = SelectSeq(pending, LAMBDA q : q.conn # k)
    /\ UNCHANGED <<capVars, hookVars, is_loaded, model, ws, ws_queue,
                   mainVars, sinkVars, logVars,
                   transcription_times>>

\* the requests sent on connection k that the server has not answered
PendingOn(k) == SelectSeq(pending, LAMBDA q : q.conn = k)

\* pending less its first request on connection k
RECURSIVE RemoveFirstOn(_, _)
RemoveFirstOn(ps, k) ==
    IF ps = <<>> THEN <<>>
    ELSE IF Head(ps).conn = k THEN Tail(ps)
    ELSE <<Head(ps)>> \o RemoveFirstOn(Tail(ps), k)

\* (mutant) a reader thread that enqueues whatever the response decodes to
OnMessagePut_all(q, r) == Append(q, r)

\* (mutant) a reader thread that enqueues every result twice
OnMessagePut_twice(q, r) == IF r.none THEN q ELSE Append(Append(q, r), r)

\* what on_message puts on the queue for a decoded response
OnMessagePut(q, r) == IF r.none THEN q ELSE Append(q, r)

\* the server answers the oldest request on connection k; reader thread:
\* on_message decodes the response and enqueues a result
WsMessage(k, resp) ==
    /\ conns[k] = "open"
    /\ PendingOn(k) # <<>>
    /\ resp \in Responses(PendingOn(k)[1].chunk)
    /\ pending' = RemoveFirstOn(pending, k)
    /\ ws_queue' = OnMessagePut(ws_queue, DecodeResponse(resp))
    /\ UNCHANGED <<capVars, hookVars, is_loaded, model, ws, ws_running, conns,
                   mainVars, sinkVars, logVars,
                   transcription_times>>

\* (mutant) a stream that yields every result that is not None
StreamKeeps_any(r) == ~r.none

\* transcribe_chunk_stream: if result and result.text.strip(): yield result
StreamKeeps(r) == ~r.none /\ Strip(r.text) # <<>>

StreamYield ==
    /\ pc = "t_ret"
    /\ IF StreamKeeps(result)
         THEN /\ yielded' = Append(yielded, [chunk |-> cur, src |-> result.src])
              /\ pc' = "body"
         ELSE pc' = "resume" /\ UNCHANGED yielded
    /\ UNCHANGED <<capVars, hookVars, beVars, config, cur, result, sinkVars,
                   calls, returns, posts, escaped, sinklog, loads>>

\* ------------------------------------------------------- main(): fan-out
Event(sink, ok) == [chunk |-> cur, sink |-> sink, ok |-> ok]

\* start_time=None, end_time=None; a time t that is given is <<t>>
NoTime == <<>>

\* TranscriptEntry(timestamp, text, confidence, start_time, end_time), with
\* the chunk of the result it was made from
TranscriptEntry(c, text, st, et) ==
    [chunk |-> c, text |-> text, start_time |-> st, end_time |-> et]

\* if entry.start_time is not None and entry.end_time is not None
HasTimes(e) == e.start_time # NoTime /\ e.end_time # NoTime

\* write_srt: a numbered cue for each entry that has both times; the number
\* is the place of the entry in the list
RECURSIVE SrtCues(_, _)
SrtCues(es, i) ==
    IF i > Len(es) THEN <<>>
    ELSE IF HasTimes(es[i])
      THEN <<[n |-> i, start |-> es[i].start_time[1],
              end |-> es[i].end_time[1], text |-> es[i].text]>>
              \o SrtCues(es, i + 1)
      ELSE SrtCues(es, i + 1)

WriteSrt(es) == SrtCues(es, 1)

\* write_vtt: a cue for each entry that has both times
WriteVtt(es) ==
    LET kept == SelectSeq(es, HasTimes) IN
    [i \in 1..Len(kept) |->
        [start |-> kept[i].start_time[1], end |-> kept[i].end_time[1],
         text |-> kept[i].text]]

\* FileWriter.open_file
OpenFile(ok) == IF ok THEN "open" ELSE "none"

\* FileWriter.close_file
CloseFile(h) == IF h = "open" THEN "closed" ELSE h

\* open the two files and start the capture; sys.exit(1) when the capture
\* does not start
MainStart(f1, f2, o) ==
    /\ pc = "open"
    /\ fw_handle' = OpenFile(f1)
    /\ cw_handle' = OpenFile(f2)
    /\ StartCapture(o)
    /\ pc' = IF o = "started" THEN "stream" ELSE "exit1"
    /\ UNCHANGED <<hookVars, beVars, config, cur, result, entries, ts_lines,
                   cont_text, display_buf, batch, logVars>>

\* the pipeline thread inside get_audio_chunks
LiveGenBegin ==
    /\ pc = "pull"
    /\ GenBegin
    /\ UNCHANGED <<hookVars, liveVars>>

\* the chunk sequence ends: so does the stream, and main() falls out of the
\* try block
LiveGenWhile ==
    /\ pc = "pull"
    /\ GenWhile
    /\ pc' = IF gpc' = "done" THEN "returned" ELSE pc
    /\ UNCHANGED <<hookVars, beVars, config, cur, result, sinkVars, logVars>>

LiveGenGet ==
    /\ pc = "pull"
    /\ GenGet
    /\ UNCHANGED <<hookVars, liveVars>>

\* a chunk is yielded to transcribe_chunk_stream
LiveGenInner ==
    /\ pc = "pull"
    /\ GenInner
    /\ pc' = IF gpc' = "yield" THEN "gate" ELSE pc
    /\ cur' = Len(emitted')
    /\ UNCHANGED <<hookVars, beVars, config, result, sinkVars, logVars>>

\* the stream asks for the next chunk
LiveGenResume ==
    /\ pc = "resume"
    /\ GenResume
    /\ pc' = "pull"
    /\ UNCHANGED <<hookVars, beVars, config, cur, result, sinkVars, logVars>>

\* if display: display.add_transcription(result); display.update()
\* An exception here reaches the except Exception clause of main().
Display(raises) ==
    /\ pc = "body"
    /\ IF ~config.rich_ui
         THEN pc' = "write" /\ UNCHANGED <<display_buf, sinklog>>
         ELSE IF raises
           THEN /\ pc' = "fatal"
                /\ sinklog' = Append(sinklog, Event("display", FALSE))
                /\ UNCHANGED display_buf
           ELSE /\ pc' = "write"
                /\ display_buf' = Append(display_buf, result)
                /\ sinklog' = Append(sinklog, Event("display", TRUE))
    /\ UNCHANGED <<capVars, hookVars, beVars, config, cur, result, fw_handle,
                   entries, ts_lines, cw_handle, cont_text, batch, calls,
                   returns, posts, yielded, escaped, loads>>

\* the sink events of the try block around the two file writes: when
\* write_entry raises, the except clause is entered and write_continuous
\* is not called
WriteEvents(r1, r2) ==
    IF r1 THEN <<Event("ts", FALSE)>>
    ELSE <<Event("ts", TRUE), Event("cont", ~r2)>>

\* try: file_writer.write_entry(text, ...);
\*      continuous_writer.write_continuous(text)
\* except Exception: handle_error
\* write_entry appends the entry to the list, then writes and flushes the
\* line when the file is open; r1 and r2 say which call's write to its open
\* file raises. main() passes the text and the confidence, no times.
WriteFiles(r1, r2) ==
    /\ pc = "write"
    /\ r1 => fw_handle = "open"
    /\ r2 => cw_handle = "open"
    /\ LET text == Strip(result.text) IN
         /\ entries' = Append(entries,
                               TranscriptEntry(cur, text, NoTime, NoTime))
         /\ ts_lines' = IF fw_handle = "open" /\ ~r1
                          THEN Append(ts_lines, [chunk |-> cur, text |-> text])
                          ELSE ts_lines
         /\ cont_text' = IF ~r1 /\ cw_handle = "open" /\ ~r2
                           THEN Append(cont_text, [chunk |-> cur, text |-> text])
                           ELSE cont_text
    /\ sinklog' = sinklog \o WriteEvents(r1, r2)
    /\ pc' = "hooks"
    /\ UNCHANGED <<capVars, hookVars, beVars, config, cur, result, fw_handle,
                   cw_handle, display_buf, batch, calls, returns, posts, yielded,
                   escaped, loads>>

\* if config.hooks.enabled: hook_context = hook_manager.create_context(result)
LiveCreateContext ==
    /\ pc = "hooks"
    /\ IF config.hooks_enabled
         THEN /\ CreateContext(result)
              /\ sinklog' = Append(sinklog, Event("context", TRUE))
              /\ pc' = "hooks_exec"
         ELSE pc' = "resume" /\ UNCHANGED <<hookVars, sinklog>>
    /\ UNCHANGED <<capVars, beVars, config, cur, result, sinkVars, calls,
                   returns, posts, yielded, escaped, loads>>

\* hook_results = hook_manager.execute_hooks(hook_context)
LiveExecuteHooks(outs) ==
    /\ pc = "hooks_exec"
    /\ ExecuteHooks(Len(contexts), outs)
    /\ UNCHANGED last_events
    /\ sinklog' = Append(sinklog, Event("hooks", TRUE))
    /\ pc' = "resume"
    /\ UNCHANGED <<capVars, beVars, config, cur, result, sinkVars, calls,
                   returns, posts, yielded, escaped, loads>>

\* the positions of main() inside the try block
InTry == {"open", "stream", "pull", "gate", "t_enter", "t_body", "ws_waitopen",
          "ws_send", "ws_wait", "t_ret", "body", "write", "hooks",
          "hooks_exec", "resume"}


\* transcriber.cleanup(): self.ws is closed and forgotten; ws_running is
\* cleared when the thread of that connection is alive
Cleanup ==
    /\ is_loaded' = FALSE
    /\ model' = "none"
    /\ ws' = 0
    /\ conns' = IF ws # 0 THEN [conns EXCEPT ![ws] = "closed"] ELSE conns
    /\ ws_running' = IF ws # 0 /\ conns[ws] \in {"connecting", "open"}
                        THEN FALSE ELSE ws_running
    /\ pending' = SelectSeq(pending, LAMBDA q : q.conn # ws)
    /\ UNCHANGED <<ws_queue, transcription_times>>

\* audio_capture.stop(); transcriber.cleanup(); file_writer.close_file();
\* continuous_writer.close_file(); the loop's variables end with the loop
Shutdown ==
    /\ StopCapture
    /\ Cleanup
    /\ fw_handle' = CloseFile(fw_handle)
    /\ cw_handle' = CloseFile(cw_handle)
    /\ cur' = 0
    /\ result' = None
    /\ UNCHANGED <<hookVars, config, entries, ts_lines, cont_text,
                   display_buf, logVars>>

\* file_writer.write_all_formats(output, output_formats), in a run started
\* with --formats naming a batch format: each write_json, write_srt, ...
\* writes the whole of self.entries
WriteAllFormats(b, es) == Append(b, es)

\* Ctrl+C: KeyboardInterrupt is raised in the pipeline thread, wherever it
\* is inside the try block, and the except KeyboardInterrupt clause runs:
\* the shutdown, then the batch formats
Interrupt ==
    /\ pc \in InTry
    /\ Shutdown
    /\ batch' = WriteAllFormats(batch, entries)
    /\ pc' = "exit0"

\* except Exception: ...; sys.exit(1)
FatalHandler ==
    /\ pc = "fatal"
    /\ Shutdown
    /\ UNCHANGED batch
    /\ pc' = "exit1"

\* ------------------------------------------- specification: live pipeline
\* the hook lists HookFactory builds from the configurations of the live
\* runs: no hook, and a hook whose own configuration disables it followed by
\* an enabled one
LiveHookLists == {<<>>, <<FALSE, TRUE>>}

LiveInit ==
    /\ CaptureInit
    /\ BackendInit /\ LogInit /\ SinkInit
    /\ config \in [backend : Backends, hooks_enabled : BOOLEAN,
                    rich_ui : BOOLEAN, api : {"stream"}]
    /\ created = NotCreated
    /\ last_events = <<>>
    /\ chunk_index = 0
    /\ contexts = <<>>
    /\ last_exec = [called |-> FALSE, ctx |-> 0, hooks |-> <<>>, outs |-> <<>>,
                    results |-> <<>>, invoked |-> <<>>]
    /\ \E en \in LiveHookLists :
          hooks = IF config.hooks_enabled
                    THEN [i \in 1..Len(en) |-> [id |-> i, enabled |-> en[i]]]
                    ELSE <<>>
    /\ pc = "open"
    /\ cur = 0
    /\ result = None

\* the amplitudes of a live run: silence, and a signal on the gate's
\* threshold
LiveAmps == {0, RmsThreshold}

\* the stream of a live run delivers frames of blocksize samples
LiveCallback ==
    /\ \E a \in LiveAmps : AudioCallback(blocksize, a, MaxLiveChunks * ChunkSize)
    /\ UNCHANGED <<hookVars, liveVars>>

Next ==
    \/ \E f1, f2 \in BOOLEAN, o \in StartOutcomes : MainStart(f1, f2, o)
    \/ LiveCallback
    \/ \E ok \in BOOLEAN : StreamBegin(ok)
    \/ LiveGenBegin
    \/ LiveGenWhile
    \/ LiveGenGet
    \/ LiveGenInner
    \/ LiveGenResume
    \/ Gate
    \/ \E ok \in BOOLEAN : TranscribeEnter(ok)
    \/ \E raises \in BOOLEAN, segs \in SegLists : TranscribeLocal(raises, segs)
    \/ \E ef \in BOOLEAN, o \in HttpOutcomes : TranscribeHttp(ef, o)
    \/ \E ef \in BOOLEAN : WsEnter(ef)
    \/ WsWaitOpen
    \/ WsSend
    \/ WsWait
    \/ \E k \in 1..Len(conns) : WsOpen(k)
    \/ \E k \in 1..Len(conns) : WsClosed(k)
    \/ \E k \in 1..Len(conns), c \in 1..MaxLiveChunks :
          \E resp \in Responses(c) : WsMessage(k, resp)
    \/ StreamYield
    \/ \E raises \in BOOLEAN : Display(raises)
    \/ \E r1, r2 \in BOOLEAN : WriteFiles(r1, r2)
    \/ LiveCreateContext
    \/ \E outs \in OutcomesOf(hooks) : LiveExecuteHooks(outs)
    \/ Interrupt
    \/ FatalHandler

Spec == LiveInit /\ [][Next]_vars

\* the live pipeline of a process that keeps running: it takes a step as
\* long as one is possible (the interpreter does not stop by itself)
FairSpec == LiveInit /\ [][Next]_vars /\ WF_vars(Next)

\* --------------------------------------- specification: the transcriber
\* A transcriber driven by a client: through transcribe_chunk_stream over a
\* chunk generator whose results the client consumes, or by calls of
\* transcribe_audio.

\* the amplitudes of the chunks handed to a transcriber: all samples at one
\* amplitude (silence, just below the threshold, on it), or the first sample
\* on the threshold and silence after it
ChunkShapes ==
    {<<a, a>> : a \in {0, RmsThreshold - 1, RmsThreshold}}
        \cup {<<RmsThreshold, 0>>}

\* the next chunk of chunk_size samples
NewChunk(shape) ==
    [i \in 1..chunk_size |->
        <<Len(emitted) * chunk_size + i, IF i = 1 THEN shape[1] ELSE shape[2]>>]

\* for chunk in audio_chunks: the generator yields a chunk
StreamNextChunk(shape) ==
    /\ pc \in {"pull", "resume"}
    /\ Len(emitted) < MaxLiveChunks
    /\ emitted' = Append(emitted, NewChunk(shape))
    /\ cur' = Len(emitted) + 1
    /\ pc' = "gate"
    /\ UNCHANGED <<is_capturing, stream, audio_queue, gpc, audio_buffer,
                   enqueued, session, devices, device, fnVars, hookVars, beVars, config,
                   result,
                   sinkVars, logVars>>

\* for chunk in audio_chunks: the generator is exhausted
StreamExhausted ==
    /\ pc \in {"pull", "resume"}
    /\ pc' = "returned"
    /\ UNCHANGED <<capVars, hookVars, beVars, config, cur, result, sinkVars,
                   logVars>>

\* the client takes the yielded result and asks for the next
StreamConsume ==
    /\ pc = "body"
    /\ pc' = "resume"
    /\ UNCHANGED <<capVars, hookVars, beVars, config, cur, result, sinkVars,
                   logVars>>

\* the positions of a client that is between two calls; "cleaned" when the
\* last call was cleanup
ClientIdle == {"client", "cleaned"}

\* the client calls transcribe_audio(chunk) itself
CallTranscribeAudio(shape) ==
    /\ pc \in ClientIdle
    /\ Len(emitted) < MaxLiveChunks
    /\ emitted' = Append(emitted, NewChunk(shape))
    /\ cur' = Len(emitted) + 1
    /\ calls' = Append(calls, Len(emitted) + 1)
    /\ pc' = "t_enter"
    /\ UNCHANGED <<is_capturing, stream, audio_queue, gpc, audio_buffer,
                   enqueued, session, devices, device, fnVars, hookVars, beVars, config,
                   result,
                   sinkVars, returns, posts, yielded, escaped, sinklog, loads>>

\* the call has returned to the client
CallReturned ==
    /\ pc = "called"
    /\ pc' = "client"
    /\ UNCHANGED <<capVars, hookVars, beVars, config, cur, result, sinkVars,
                   logVars>>

\* the client calls load_model()
CallLoadModel(ok) ==
    /\ pc \in ClientIdle
    /\ LoadModel(ok)
    /\ pc' = "client"
    /\ UNCHANGED <<capVars, hookVars, ws, ws_running, conns, pending, ws_queue,
                   transcription_times, config, cur, result, sinkVars, calls,
                   returns, posts, yielded, escaped, sinklog>>

\* the client calls cleanup()
CallCleanup ==
    /\ pc \in ClientIdle
    /\ Cleanup
    /\ pc' = "cleaned"
    /\ UNCHANGED <<capVars, hookVars, config, cur, result, sinkVars, logVars>>

\* get_performance_stats(): the count, and the sum the average is made of
RECURSIVE SumTimes(_)
SumTimes(ts) == IF ts = <<>> THEN 0 ELSE Head(ts) + SumTimes(Tail(ts))

GetPerformanceStats ==
    [total_transcriptions |-> Len(transcription_times),
     sum |-> SumTimes(transcription_times)]

TranscriberInit ==
    /\ CaptureInit /\ HookInit
    /\ BackendInit /\ LogInit /\ SinkInit
    /\ config \in [backend : Backends, hooks_enabled : {FALSE},
                    rich_ui : {FALSE}, api : {"stream", "audio"}]
    /\ pc = IF config.api = "audio" THEN "client" ELSE "stream"
    /\ cur = 0
    /\ result = None

TranscriberNext ==
    \/ \E ok \in BOOLEAN : StreamBegin(ok)
    \/ \E shape \in ChunkShapes : StreamNextChunk(shape)
    \/ StreamExhausted
    \/ Gate
    \/ \E shape \in ChunkShapes : CallTranscribeAudio(shape)
    \/ CallReturned
    \/ \E ok \in BOOLEAN : TranscribeEnter(ok)
    \/ \E raises \in BOOLEAN, segs \in SegLists : TranscribeLocal(raises, segs)
    \/ \E ef \in BOOLEAN, o \in HttpOutcomes : TranscribeHttp(ef, o)
    \/ \E ef \in BOOLEAN : WsEnter(ef)
    \/ WsWaitOpen
    \/ WsSend
    \/ WsWait
    \/ \E k \in 1..Len(conns) : WsOpen(k)
    \/ \E k \in 1..Len(conns) : WsClosed(k)
    \/ \E k \in 1..Len(conns), c \in 1..MaxLiveChunks :
          \E resp \in Responses(c) : WsMessage(k, resp)
    \/ StreamYield
    \/ StreamConsume

SpecTranscriber == TranscriberInit /\ [][TranscriberNext]_vars

\* ------------------------------ specification: the transcriber's lifecycle
\* The same transcriber with a client that also calls load_model and cleanup
\* between its transcribe_audio calls, as often as it likes.
LifecycleNext ==
    \/ \E ok \in BOOLEAN : StreamBegin(ok)
    \/ \E shape \in ChunkShapes : StreamNextChunk(shape)
    \/ StreamExhausted
    \/ Gate
    \/ \E shape \in ChunkShapes : CallTranscribeAudio(shape)
    \/ CallReturned
    \/ \E ok \in BOOLEAN : CallLoadModel(ok)
    \/ CallCleanup
    \/ \E ok \in BOOLEAN : TranscribeEnter(ok)
    \/ \E raises \in BOOLEAN, segs \in SegLists : TranscribeLocal(raises, segs)
    \/ \E ef \in BOOLEAN, o \in HttpOutcomes : TranscribeHttp(ef, o)
    \/ \E ef \in BOOLEAN : WsEnter(ef)
    \/ WsWaitOpen
    \/ WsSend
    \/ WsWait
    \/ \E k \in 1..Len(conns) : WsOpen(k)
    \/ \E k \in 1..Len(conns) : WsClosed(k)
    \/ \E k \in 1..Len(conns), c \in 1..MaxLiveChunks :
          \E resp \in Responses(c) : WsMessage(k, resp)
    \/ StreamYield
    \/ StreamConsume

SpecLifecycle == TranscriberInit /\ [][LifecycleNext]_vars

\* --------------------------------------------------------- built-in hooks
\* HookFactory.HOOK_TYPES
HOOK_TYPES == {"console_log", "file_append", "command", "webhook",
               "translation", "openai_translation"}

\* what can happen inside the try block of a hook's execute: it comes to one
\* of its return statements, or a call it makes raises
BodyEvents(kind) ==
    CASE kind = "console_log" -> {"done", "UnicodeEncodeError"}
      [] kind = "file_append" -> {"done", "OSError"}
      [] kind = "command" -> {"rc_zero", "rc_nonzero", "TimeoutExpired", "KeyError"}
      [] kind = "webhook" -> {"no_url", "status_200", "status_other", "Timeout",
                              "ImportError"}
      [] kind = "translation" -> {"rc_zero", "rc_nonzero", "unsupported_service",
                                  "TimeoutExpired"}
      [] kind = "openai_translation" -> {"no_api_key", "ImportError", "done",
                                         "APIError"}
      [] OTHER -> {"done"}

\* the return statements with success=True, and those with success=False
SuccessReturns == {"done", "rc_zero", "status_200"}
FailureReturns == {"rc_nonzero", "no_url", "status_other",
                   "unsupported_service", "no_api_key"}

\* the except clauses without the last one
HookCatches_named(kind) ==
    CASE kind = "command" -> {"TimeoutExpired"}
      [] kind \in {"webhook", "openai_translation"} -> {"ImportError"}
      [] OTHER -> {}

\* the except clauses of a hook's execute; each returns a failed HookResult
HookCatches(kind) ==
    CASE kind = "command" -> {"TimeoutExpired", "Exception"}
      [] kind \in {"webhook", "openai_translation"} -> {"ImportError", "Exception"}
      [] OTHER -> {"Exception"}

\* execute of a built-in hook: what the manager gets from it
Execute(kind, ev) ==
    IF ev \in SuccessReturns THEN "ok"
    ELSE IF ev \in FailureReturns THEN "fail"
    ELSE IF \E c \in HookCatches(kind) : IsSubclass(ev, c) THEN "fail"
    ELSE "raise"

\* a hook object: is_enabled() is config.get('enabled', True) of its own
\* config
NewHook(kind, cfg_enabled) == [id |-> 0, enabled |-> cfg_enabled, kind |-> kind]

\* hook_manager.register_hook(hook), the hook tagged with its registration
\* number
RegisterObject(hs, h) == AppendHook(hs, [h EXCEPT !.id = Len(hs) + 1])

\* what the hooks of a list can meet in one execute_hooks call; a disabled
\* hook is not invoked ("done" stands for that)
RECURSIVE EventLists(_)
EventLists(hs) ==
    IF hs = <<>> THEN {<<>>}
    ELSE {<<e>> \o rest :
            e \in (IF Head(hs).enabled THEN BodyEvents(Head(hs).kind) ELSE {"done"}),
            rest \in EventLists(Tail(hs))}

\* execute_hooks over built-in hooks
BuiltinExecute(evs) ==
    /\ contexts # <<>>
    /\ ExecuteHooks(Len(contexts),
                    [i \in 1..Len(hooks) |-> Execute(hooks[i].kind, evs[i])])
    /\ last_events' = evs

\* create_context for the one result of these runs
BuiltinCreateContext ==
    /\ contexts = <<>>
    /\ CreateContext([none |-> FALSE, src |-> 1, text |-> <<"w">>])

\* ------------------------------------------------------------ HookFactory
\* the type field of a hook entry: a known type, an unknown one, or none
EntryTypes == HOOK_TYPES \cup {"bogus", "missing"}

\* a hook entry: its type, its enabled field, and the enabled field of its
\* config
Entries == [type : EntryTypes, enabled : BOOLEAN, cfg_enabled : BOOLEAN]

\* (mutant) every type that is present is taken for a known one
KnownType_any(t) == TRUE

\* cls.HOOK_TYPES.get(hook_type) is a class
KnownType(t) == t \in HOOK_TYPES

\* create_hook: "raised" (ValueError), "none" (returns None) or "hook"
CreateHook(entry) ==
    IF entry.type = "missing" THEN "raised"
    ELSE IF ~KnownType(entry.type) THEN "raised"
    ELSE IF ~entry.enabled THEN "none"
    ELSE "hook"

\* (mutant) a loop that ends at the first exception of create_hook; the
\* entries it has not reached are logged as such
RECURSIVE CreateLoop_stops(_)
CreateLoop_stops(es) ==
    IF es = <<>> THEN [hooks |-> <<>>, log |-> <<>>]
    ELSE LET e == Head(es)
             out == CreateHook(e)
         IN IF out = "raised"
              THEN [hooks |-> <<>>,
                    log |-> <<[entry |-> e, out |-> out]>>
                            \o [i \in 1..(Len(es) - 1) |->
                                  [entry |-> es[i + 1], out |-> "unreached"]]]
              ELSE LET rest == CreateLoop_stops(Tail(es)) IN
                   [hooks |-> (IF out = "hook"
                                 THEN <<NewHook(e.type, e.cfg_enabled)>>
                                 ELSE <<>>) \o rest.hooks,
                    log |-> <<[entry |-> e, out |-> out]>> \o rest.log]

\* the loop of create_hooks_from_config: an exception of create_hook is
\* logged and the loop goes on
RECURSIVE CreateLoop(_)
CreateLoop(es) ==
    IF es = <<>> THEN [hooks |-> <<>>, log |-> <<>>]
    ELSE LET e == Head(es)
             out == CreateHook(e)
             rest == CreateLoop(Tail(es))
         IN [hooks |-> (IF out = "hook"
                          THEN <<NewHook(e.type, e.cfg_enabled)>>
                          ELSE <<>>) \o rest.hooks,
             log |-> <<[entry |-> e, out |-> out]>> \o rest.log]

\* create_hooks_from_config
CreateHooksFromConfig(hc) ==
    IF ~hc.enabled THEN [hooks |-> <<>>, log |-> <<>>] ELSE CreateLoop(hc.hooks)

\* for hook in hooks: hook_manager.register_hook(hook)
RECURSIVE RegisterAll(_, _)
RegisterAll(hs, objs) ==
    IF objs = <<>> THEN hs
    ELSE RegisterAll(RegisterObject(hs, Head(objs)), Tail(objs))

\* the hook lists of a configuration
RECURSIVE EntryLists(_)
EntryLists(n) ==
    IF n = 0 THEN {<<>>}
    ELSE LET shorter == EntryLists(n - 1) IN
         shorter \cup {Append(es, e) : es \in shorter, e \in Entries}

\* main(): the hook manager is set up from the hooks configuration
FactorySetup(hc) ==
    /\ ~created.done
    /\ LET made == IF hc.enabled THEN CreateHooksFromConfig(hc)
                    ELSE [hooks |-> <<>>, log |-> <<>>] IN
         /\ hooks' = RegisterAll(hooks, made.hooks)
         /\ created' = [done |-> TRUE, enabled |-> hc.enabled, log |-> made.log]
    /\ UNCHANGED <<chunk_index, contexts, last_exec, last_events>>

\* main(): if config.hooks.enabled: create_context(result)
FactoryCreateContext ==
    /\ created.done /\ created.enabled
    /\ BuiltinCreateContext
    /\ UNCHANGED <<capVars, liveVars>>

\* main(): execute_hooks(hook_context)
FactoryExecute ==
    /\ created.done /\ created.enabled
    /\ ~last_exec.called
    /\ \E evs \in EventLists(hooks) : BuiltinExecute(evs)
    /\ UNCHANGED <<capVars, liveVars>>

\* -------------------------------------------- specification: HookManager
HookRegister == \E e \in BOOLEAN : RegisterHook(e)
HookExecute ==
    \E c \in 1..Len(contexts), outs \in OutcomesOf(hooks) :
        ExecuteHooks(c, outs) /\ UNCHANGED last_events

HookCreateContext ==
    \E c \in 1..2 : CreateContext([none |-> FALSE, src |-> c, text |-> <<"w">>])

HookNext ==
    \/ HookRegister /\ UNCHANGED <<capVars, liveVars>>
    \/ HookCreateContext /\ UNCHANGED <<capVars, liveVars>>
    \/ HookExecute /\ UNCHANGED <<capVars, liveVars>>

HooksInit == CaptureInit /\ HookInit /\ LiveIdle

SpecHooks == HooksInit /\ [][HookNext]_vars

\* ----------------------------------------- specification: built-in hooks
\* A manager with built-in hooks registered in any order at start-up, and
\* then one context executed once with everything a hook's body can meet.
BuiltinRegister ==
    /\ Len(hooks) < MaxHooks
    /\ contexts = <<>>
    /\ \E kind \in HOOK_TYPES, e \in BOOLEAN :
          hooks' = RegisterObject(hooks, NewHook(kind, e))
    /\ UNCHANGED <<created, chunk_index, contexts, last_exec, last_events>>

BuiltinNext ==
    \/ BuiltinRegister /\ UNCHANGED <<capVars, liveVars>>
    \/ BuiltinCreateContext /\ UNCHANGED <<capVars, liveVars>>
    \/ (~last_exec.called /\ \E evs \in EventLists(hooks) : BuiltinExecute(evs))
          /\ UNCHANGED <<capVars, liveVars>>

SpecBuiltin == HooksInit /\ [][BuiltinNext]_vars

\* -------------------------------------------- specification: HookFactory
\* main() sets the manager up from a hooks configuration, then creates and
\* executes a context when the subsystem is enabled.
HooksConfigs == [enabled : BOOLEAN, hooks : EntryLists(MaxEntries)]

FactoryNext ==
    \/ (~created.done /\ \E hc \in HooksConfigs : FactorySetup(hc))
          /\ UNCHANGED <<capVars, liveVars>>
    \/ FactoryCreateContext
    \/ FactoryExecute

SpecFactory == HooksInit /\ [][FactoryNext]_vars

\* ------------------------------------------- specification: AudioCapture
CaptureCallback == \E n \in 1..MaxFrame, a \in Amps : AudioCallback(n, a, MaxSamples)
CaptureStart == \E o \in StartOutcomes : StartCapture(o)

CaptureNext ==
    \/ CaptureCallback /\ UNCHANGED <<hookVars, liveVars>>
    \/ CaptureStart /\ UNCHANGED <<hookVars, liveVars>>
    \/ StopCapture /\ UNCHANGED <<hookVars, liveVars>>
    \/ GenBegin /\ UNCHANGED <<hookVars, liveVars>>
    \/ GenWhile /\ UNCHANGED <<hookVars, liveVars>>
    \/ GenGet /\ UNCHANGED <<hookVars, liveVars>>
    \/ GenInner /\ UNCHANGED <<hookVars, liveVars>>
    \/ GenResume /\ UNCHANGED <<hookVars, liveVars>>

CaptureOnlyInit == CaptureInit /\ HookInit /\ LiveIdle

SpecCapture == CaptureOnlyInit /\ [][CaptureNext]_vars

\* ----------------------------------------- specification: device set-up
\* The devices sounddevice can report, and setup_device called with no
\* index and with every index.
InputChannels == {0, 2}

DeviceKinds ==
    {AudioDevice(bh, kw, ch) : bh \in BOOLEAN, kw \in BOOLEAN, ch \in InputChannels}

RECURSIVE DeviceLists(_)
DeviceLists(n) ==
    IF n = 0 THEN {<<>>}
    ELSE LET shorter == DeviceLists(n - 1) IN
         shorter \cup {Append(ds, d) : ds \in shorter, d \in DeviceKinds}

DevicesInit ==
    /\ FnIdle
    /\ devices \in DeviceLists(MaxDevices)
    /\ device = Selected(AutoDetect, "unset", 0)
    /\ StreamInit
    /\ HookInit
    /\ LiveIdle

DevicesNext ==
    \/ SetupDevice(AutoDetect) /\ UNCHANGED <<hookVars, liveVars>>
    \/ (\E i \in 0..MaxDevices : SetupDevice(<<i>>)) /\ UNCHANGED <<hookVars, liveVars>>

SpecDevices == DevicesInit /\ [][DevicesNext]_vars

\* ------------------------------- specification: the merge of the segments
\* The segment lists faster-whisper can return for a chunk, and the merge
\* transcribe_audio makes of them.
SegmentTextSet == {<<"hello">>, <<" ", "world">>, <<" ">>}

Segments ==
    {[text |-> t, start |-> a, end |-> b] :
        t \in SegmentTextSet, a \in 0..MaxTime, b \in 0..MaxTime}

RECURSIVE SegmentLists(_)
SegmentLists(n) ==
    IF n = 0 THEN {<<>>}
    ELSE LET shorter == SegmentLists(n - 1) IN
         shorter \cup {Append(ss, g) : ss \in shorter, g \in Segments}

MergeInit ==
    /\ segments \in SegmentLists(MaxSegments)
    /\ merged = [status |-> "unset", text |-> <<>>, start_time |-> 0,
                 end_time |-> 0]
    /\ CodecIdle
    /\ devices = <<AudioDevice(TRUE, FALSE, 2)>>
    /\ device = Selected(AutoDetect, "ok", 1)
    /\ StreamInit
    /\ HookInit
    /\ LiveIdle

MergeNext ==
    \/ Merge /\ UNCHANGED <<hookVars, liveVars>>

SpecMerge == MergeInit /\ [][MergeNext]_vars

\* ---------------------------------- specification: the audio encoding
\* The float chunks a client can encode, the encoding, and the decoding of
\* the payload by the server.
RECURSIVE AudioChunks(_)
AudioChunks(n) ==
    IF n = 0 THEN {<<>>}
    ELSE LET shorter == AudioChunks(n - 1) IN
         shorter \cup {Append(xs, x) : xs \in shorter, x \in -MaxNum..MaxNum}

CodecInit ==
    /\ audio_data \in AudioChunks(MaxAudio)
    /\ payload = NoPayload
    /\ decoded = NoAudio
    /\ segments = <<>>
    /\ merged = [status |-> "unset", text |-> <<>>, start_time |-> 0,
                 end_time |-> 0]
    /\ devices = <<AudioDevice(TRUE, FALSE, 2)>>
    /\ device = Selected(AutoDetect, "ok", 1)
    /\ StreamInit
    /\ HookInit
    /\ LiveIdle

CodecNext ==
    \/ Encode /\ UNCHANGED <<hookVars, liveVars>>
    \/ Decode /\ UNCHANGED <<hookVars, liveVars>>

SpecCodec == CodecInit /\ [][CodecNext]_vars

\* the steps of the generator; its consumer keeps pulling, and the waits on
\* the queue are bounded (timeout=0.1), so the generator is never stuck
GenStep ==
    (GenWhile \/ GenGet \/ GenInner \/ GenResume) /\ UNCHANGED <<hookVars, liveVars>>

\* the capture source with frames of silence of every length: what the
\* samples are plays no part in when the sequence ends
SilentCallback == \E n \in 1..MaxFrame : AudioCallback(n, 0, MaxSamples)

FairCaptureNext ==
    \/ SilentCallback /\ UNCHANGED <<hookVars, liveVars>>
    \/ CaptureStart /\ UNCHANGED <<hookVars, liveVars>>
    \/ StopCapture /\ UNCHANGED <<hookVars, liveVars>>
    \/ GenBegin /\ UNCHANGED <<hookVars, liveVars>>
    \/ GenWhile /\ UNCHANGED <<hookVars, liveVars>>
    \/ GenGet /\ UNCHANGED <<hookVars, liveVars>>
    \/ GenInner /\ UNCHANGED <<hookVars, liveVars>>
    \/ GenResume /\ UNCHANGED <<hookVars, liveVars>>

FairCapture == CaptureOnlyInit /\ [][FairCaptureNext]_vars /\ WF_vars(GenStep)

\* ------------------------------------------------------------ claims: C1
IsPrefix(s, t) == Len(s) <= Len(t) /\ s = SubSeq(t, 1, Len(s))

\* C1: once the chunk sequence of the first session has ended, every emitted
\* chunk holds exactly chunk_size samples, and the emitted chunks joined are
\* the enqueued samples in arrival order, less a discarded tail shorter than
\* one chunk.
C1_ExactChunksNoLoss ==
    (gpc = "done" /\ session = 1) =>
        /\ \A i \in 1..Len(emitted) : Len(emitted[i]) = chunk_size
        /\ IsPrefix(Flatten(emitted), enqueued)
        /\ Len(enqueued) - Len(Flatten(emitted)) < chunk_size

\* ----------------------------------------------------- claims: C7, C8, C9
\* the positions of the enabled hooks of a list, ascending
EnabledPositions(hs) ==
    SelectSeq([i \in 1..Len(hs) |-> i], LAMBDA i : hs[i].enabled)

SomeHookRaised(e) ==
    \E i \in 1..Len(e.hooks) : e.hooks[i].enabled /\ e.outs[i] = "raise"

\* C7 as stated: when a hook of the list raised, execute_hooks returned one
\* result per hook of the list, a failed one at each raising hook's position.
C7_ResultPerListedHook ==
    (last_exec.called /\ SomeHookRaised(last_exec)) =>
        /\ Len(last_exec.results) = Len(last_exec.hooks)
        /\ \A i \in 1..Len(last_exec.hooks) :
              last_exec.outs[i] = "raise" =>
                  /\ i <= Len(last_exec.results)
                  /\ last_exec.results[i].raised

\* C7 amended: execute_hooks returns one result per ENABLED hook, in list
\* order; the entry of a hook that raised is a failed result built from the
\* exception, every other entry is what its hook returned, and every enabled
\* hook after a raising one has still been invoked.
C7_ResultPerEnabledHook ==
    last_exec.called =>
        LET pos == EnabledPositions(last_exec.hooks) IN
        /\ Len(last_exec.results) = Len(pos)
        /\ Len(last_exec.invoked) = Len(pos)
        /\ \A j \in 1..Len(pos) :
              /\ last_exec.invoked[j] = last_exec.hooks[pos[j]].id
              /\ last_exec.results[j].hook = last_exec.hooks[pos[j]].id
              /\ last_exec.results[j].raised = (last_exec.outs[pos[j]] = "raise")
              /\ last_exec.results[j].success = (last_exec.outs[pos[j]] = "ok")

\* a call over three hooks: a disabled one, then one that raised, then one
\* that succeeded
C7_Witness ==
    /\ last_exec.called
    /\ Len(last_exec.hooks) = 3
    /\ ~last_exec.hooks[1].enabled
    /\ last_exec.hooks[2].enabled /\ last_exec.outs[2] = "raise"
    /\ last_exec.hooks[3].enabled /\ last_exec.outs[3] = "ok"
    /\ Len(last_exec.results) = 2

\* C8: chunk_index counts the create_context calls, whatever hooks are
\* registered and whatever they did: the n-th context carries n - 1.
C8_ChunkIndexCountsContexts ==
    /\ chunk_index = Len(contexts)
    /\ \A n \in 1..Len(contexts) : contexts[n].chunk_index = n - 1

\* three contexts created around a call in which a hook raised
C8_Witness ==
    /\ Len(contexts) = 3
    /\ Len(hooks) >= 2
    /\ last_exec.called
    /\ SomeHookRaised(last_exec)
    /\ chunk_index = 3

\* C9: the list holds the hooks in registration order, and execute_hooks
\* invokes the enabled ones in that order and returns their results in it.
C9_RegistrationOrder ==
    /\ \A i \in 1..Len(hooks) : hooks[i].id = i
    /\ last_exec.called =>
          /\ \A j \in 1..Len(last_exec.invoked) - 1 :
                last_exec.invoked[j] < last_exec.invoked[j + 1]
          /\ {last_exec.invoked[j] : j \in 1..Len(last_exec.invoked)}
                = {h \in 1..Len(last_exec.hooks) : last_exec.hooks[h].enabled}
          /\ [j \in 1..Len(last_exec.results) |-> last_exec.results[j].hook]
                = last_exec.invoked

\* three enabled hooks registered and executed
C9_Witness ==
    /\ last_exec.called
    /\ Len(last_exec.hooks) = 3
    /\ \A i \in 1..3 : last_exec.hooks[i].enabled
    /\ Len(last_exec.invoked) = 3

\* ------------------------------------------- claims: C2, C3 (energy gate)
\* RMS energy below the threshold: mean(chunk ** 2) < 0.001 ** 2
BelowThreshold(chunk) == SumSq(chunk) < RmsThreshold * RmsThreshold * Len(chunk)

\* C2: in transcribe_chunk_stream, of every backend, a chunk whose RMS energy
\* is below the threshold is never passed to transcribe_audio, nothing is
\* returned or yielded for it, and the stream goes on to the next chunk.
C2_GateSkipsBackend ==
    config.api = "stream" =>
        \A c \in 1..Len(emitted) :
            BelowThreshold(emitted[c]) =>
                /\ \A i \in 1..Len(calls) : calls[i] # c
                /\ \A i \in 1..Len(returns) : returns[i].chunk # c
                /\ \A i \in 1..Len(yielded) : yielded[i].chunk # c
                /\ cur = c => pc \in {"gate", "resume", "returned"}

\* a chunk with some energy, below the threshold, was skipped, and the chunk
\* after it was transcribed and yielded
C2_Witness ==
    /\ config.api = "stream"
    /\ Len(emitted) = 2
    /\ SumSq(emitted[1]) > 0
    /\ BelowThreshold(emitted[1])
    /\ calls = <<2>>
    /\ Len(yielded) = 1
    /\ yielded[1].chunk = 2

\* C3: in the live pipeline a chunk below the threshold has no sink effect:
\* no display, file or hook event, no entry in the list, no line in either
\* file; and chunk_index counts the contexts created for the other chunks.
C3_NoSinkEffectBelowThreshold ==
    /\ \A c \in 1..Len(emitted) :
          BelowThreshold(emitted[c]) =>
              /\ \A i \in 1..Len(sinklog) : sinklog[i].chunk # c
              /\ \A i \in 1..Len(entries) : entries[i].chunk # c
              /\ \A i \in 1..Len(ts_lines) : ts_lines[i].chunk # c
              /\ \A i \in 1..Len(cont_text) : cont_text[i].chunk # c
    /\ chunk_index =
          Cardinality({i \in 1..Len(sinklog) : sinklog[i].sink = "context"})

\* a silent first chunk, and a second chunk that went through every sink
C3_Witness ==
    /\ Len(emitted) = 2
    /\ BelowThreshold(emitted[1])
    /\ Len(entries) = 1 /\ entries[1].chunk = 2
    /\ Len(ts_lines) = 1
    /\ Len(cont_text) = 1
    /\ chunk_index = 1
    /\ \E i \in 1..Len(sinklog) :
          sinklog[i].sink = "hooks" /\ sinklog[i].chunk = 2

\* ------------------------------------------------------ claims: C4, C5
\* the positions inside a transcribe_audio call
InTranscribe == {"t_enter", "t_body", "ws_waitopen", "ws_send", "ws_wait"}

\* the failures that are exceptions raised inside transcribe_audio
Exceptions ==
    {"RuntimeError", "ValueError", "Timeout", "ConnectionError",
     "JSONDecodeError", "WebSocketError", "AttributeError"}

\* C4: no exception leaves transcribe_audio, whatever the backend: every
\* call made has returned or is still running, a call that failed (load,
\* encode, decode, network, timeout, setup) has returned None, and the
\* stream has yielded nothing for it and has not been aborted.
C4_TranscribeAudioNeverRaises ==
    /\ ~escaped
    /\ pc # "fatal"
    /\ Len(returns) = Len(calls) - (IF pc \in InTranscribe THEN 1 ELSE 0)
    /\ \A i \in 1..Len(returns) :
          /\ returns[i].chunk = calls[i]
          /\ returns[i].fail # "" =>
                /\ returns[i].res = None
                /\ \A j \in 1..Len(yielded) : yielded[j].chunk # returns[i].chunk

\* a call in which an exception was raised returned None, and the call for
\* the next chunk returned a result
C4_Witness ==
    /\ Len(returns) = 2
    /\ returns[1].fail \in Exceptions
    /\ returns[1].res = None
    /\ ~returns[2].res.none

NetworkError(p) == p.exc \in {"Timeout", "ConnectionError"}
BadStatus(p) == ~NetworkError(p) /\ (p.status < 200 \/ p.status > 299)

\* C5: HTTP backend: a request answered with a non-2xx status, or one that
\* hit a network error, made its call return None; the backend is still
\* loaded and not aborted; and every later call that got as far as sending
\* made exactly one request of its own.
C5_HttpFailureKeepsPipeline ==
    config.backend = "http" =>
        \A i \in 1..Len(posts) :
            (NetworkError(posts[i]) \/ BadStatus(posts[i])) =>
                /\ \E j \in 1..Len(returns) :
                      /\ returns[j].chunk = posts[i].chunk
                      /\ returns[j].res = None
                /\ is_loaded
                /\ pc # "fatal"
                /\ \A j \in 1..Len(returns) :
                      (/\ returns[j].chunk > posts[i].chunk
                       /\ returns[j].fail # "ValueError") =>
                          Cardinality({k \in 1..Len(posts) :
                              posts[k].chunk = returns[j].chunk}) = 1

\* the first request was answered 500 with a body that holds a text, its
\* call returned None, and the request of the next chunk gave a result
C5_Witness ==
    /\ config.backend = "http"
    /\ Len(posts) = 2
    /\ posts[1].status = 500
    /\ returns[1].res = None
    /\ posts[2].chunk = 2 /\ posts[2].status = 200
    /\ ~returns[2].res.none
    /\ is_loaded

\* ----------------------------------------------------- claims: C6, C10
\* C6: the results are delivered in chunk-arrival order, and each delivered
\* result was computed from the chunk whose transcribe_audio call returned it.
C6_DeliveredInOrderForOwnChunk ==
    /\ \A i \in 1..Len(yielded) : yielded[i].src = yielded[i].chunk
    /\ \A i, j \in 1..Len(yielded) :
          i < j => /\ yielded[i].chunk < yielded[j].chunk
                   /\ yielded[i].src < yielded[j].src

\* the sink events logged for chunk c
EventsOf(c, sink) ==
    {i \in 1..Len(sinklog) : sinklog[i].chunk = c /\ sinklog[i].sink = sink}

\* C10: when the timestamped-file write of a result fails, the continuous
\* write is still made for that result, the display has been updated, and
\* the hooks are dispatched before the next chunk is asked for.
C10_TimestampedFailureIsolated ==
    \A i \in 1..Len(sinklog) :
        (sinklog[i].sink = "ts" /\ ~sinklog[i].ok) =>
            LET c == sinklog[i].chunk IN
            /\ EventsOf(c, "cont") # {}
            /\ config.rich_ui => EventsOf(c, "display") # {}
            /\ (config.hooks_enabled /\ cur = c /\ pc = "resume") =>
                  EventsOf(c, "hooks") # {}

\* ---------------------------------------------------- claims: C11, C12
\* C11: when the display update of a result raises, the run is not aborted,
\* and the file writes of that result are made (or are the next step) and
\* its hooks are dispatched before the next chunk is asked for.
C11_DisplayFailureIsolated ==
    \A i \in 1..Len(sinklog) :
        (sinklog[i].sink = "display" /\ ~sinklog[i].ok) =>
            LET c == sinklog[i].chunk IN
            /\ pc \notin {"fatal", "exit1"}
            /\ (cur = c /\ pc = "write") \/ EventsOf(c, "ts") # {}
            /\ (config.hooks_enabled /\ cur = c /\ pc = "resume") =>
                  EventsOf(c, "hooks") # {}

\* the place of a sink in the order the fan-out is said to follow; creating
\* the context is part of the hook dispatch
SinkRank(sink) ==
    CASE sink = "ts" -> 1
      [] sink = "cont" -> 2
      [] sink = "display" -> 3
      [] OTHER -> 4

\* C12: the sink operations of one result are made in the order timestamped
\* file, continuous file, display, hooks.
C12_FixedSinkOrder ==
    \A i, j \in 1..Len(sinklog) :
        (i < j /\ sinklog[i].chunk = sinklog[j].chunk) =>
            SinkRank(sinklog[i].sink) <= SinkRank(sinklog[j].sink)

\* ------------------------------------------- claims: C13, C14, C15, C16
\* C13: WebSocket backend: a call made after a call that timed out never
\* returns the result computed from the timed-out call's chunk.
C13_NoStaleResponse ==
    \A i, j \in 1..Len(returns) :
        (i < j /\ returns[i].fail = "ws_timeout") =>
            \/ returns[j].res.none
            \/ returns[j].res.src # returns[i].chunk

\* the last transcribe_audio call has just timed out on the response queue
TimedOut(rs) == rs # <<>> /\ rs[Len(rs)].fail = "ws_timeout"

\* C14: WebSocket backend: the step in which a call that has sent its request
\* times out on the response queue returns None and changes none of ws,
\* ws_running, the connections (each with its reader thread) and is_loaded.
C14_TimeoutLeavesConnection ==
    [][(Len(returns') = Len(returns) + 1 /\ TimedOut(returns')) =>
          /\ result' = None
          /\ pc' = ReturnTo
          /\ UNCHANGED <<ws, ws_running, conns, is_loaded>>]_vars

\* a call has timed out and its connection is still the open one
C14_Witness ==
    /\ TimedOut(returns)
    /\ pc = ReturnTo
    /\ result = None
    /\ ws # 0 /\ conns[ws] = "open"
    /\ ws_running
    /\ is_loaded

\* C15: WebSocket backend: once on_close has fired for the transcriber's
\* connection, and as long as load_model is not called, no connection is
\* opened and no request is sent. (In these runs load_model is called once,
\* before the first connection.)
C15_FailFastAfterClose ==
    [][(ws # 0 /\ conns[ws] = "closed") =>
          /\ Len(conns') = Len(conns)
          /\ Len(pending') <= Len(pending)]_vars

\* the connections whose reader thread is running
Threads == {k \in 1..Len(conns) : conns[k] \in {"connecting", "open"}}

\* C16: a WebSocket transcriber has at most one reader thread, and so at
\* most one open connection, at any time.
C16_OneConnection ==
    /\ Cardinality(Threads) <= 1
    /\ Cardinality({k \in 1..Len(conns) : conns[k] = "open"}) <= 1

\* C17: load_model is idempotent: a call made while the backend is already
\* loaded (an earlier call succeeded and no cleanup came since) does no
\* work, returns success, and leaves the backend loaded.
C17_LoadModelIdempotent ==
    \A i \in 1..Len(loads) :
        loads[i].was_loaded => (~loads[i].probed /\ loads[i].ret)

\* C18: cleanup leaves the backend unloaded, without a model and without an
\* open connection, however often it is called.
C18_CleanupReleasesEverything ==
    pc = "cleaned" =>
        /\ ~is_loaded
        /\ model = "none"
        /\ ws = 0
        /\ \A k \in 1..Len(conns) : conns[k] # "open"

\* C19: the performance window never holds more than WindowSize latencies,
\* so the statistics are computed over at most the WindowSize most recent
\* successful calls.
C19_WindowBounded ==
    /\ Len(transcription_times) <= WindowSize
    /\ GetPerformanceStats.total_transcriptions <= WindowSize

\* the result loop of main() is over: the stream returned, or the user
\* stopped the run
LoopEnded == pc \in {"returned", "exit0"}

\* the orderly shutdown has been made
ShutdownDone ==
    /\ ~is_capturing
    /\ ~is_loaded /\ ws = 0
    /\ fw_handle # "open"
    /\ cw_handle # "open"

\* C20: every run whose result loop ends, by the user's stop signal or
\* because the sequence terminated, eventually stops the capture source,
\* cleans the backend up and closes both file sinks.
C20_LoopEndLeadsToShutdown == LoopEnded ~> ShutdownDone

\* ---------------------------------------------------------- claims: C21
\* C21: a user stop never abandons a chunk in flight: when the loop has been
\* left on the user's stop, every transcribe_audio call that was made has
\* returned, every result returned has been yielded, and every result
\* yielded has reached the file sinks.
C21_StopCompletesChunkInFlight ==
    pc = "exit0" =>
        /\ Len(returns) = Len(calls)
        /\ \A i \in 1..Len(returns) :
              ~returns[i].res.none =>
                  \E j \in 1..Len(yielded) : yielded[j].chunk = returns[i].chunk
        /\ \A j \in 1..Len(yielded) : EventsOf(yielded[j].chunk, "ts") # {}

\* ---------------------------------------------------------- claims: C22
\* the backend could not be initialized: its first load_model call failed
\* before any chunk was handed to it
InitFailed == loads # <<>> /\ ~loads[1].ret /\ calls = <<>> /\ ~is_loaded

\* C22: when the backend cannot be initialized the run does not end with a
\* success outcome, and not with the capture still running: main() has not
\* simply returned.
C22_InitFailureIsFatal ==
    InitFailed => (pc # "returned" /\ (pc \in {"exit0", "exit1"} => ~is_capturing))

\* ---------------------------------------------------------- claims: C23
\* C23: start and stop are idempotent, and after any sequence of start and
\* stop calls is_capturing is true exactly when the source holds a stream:
\* a start on a started source and a stop on a stopped one change nothing.
C23_CapturingIffStreamOpen == is_capturing <=> stream # "none"

\* ---------------------------------------------------------- claims: C24
\* the source is stopped while a generator is running
StoppedWhileRunning == ~is_capturing /\ gpc \in {"while", "get", "inner", "yield"}

C25_BuiltinHooksNeverRaise ==
    last_exec.called =>
        LET hs == last_exec.hooks
            rs == last_exec.results
        IN /\ Len(last_events) = Len(hs)
           /\ Len(rs) = Cardinality({i \in 1..Len(hs) : hs[i].enabled})
           /\ \A i \in 1..Len(rs) :
                 /\ ~rs[i].raised
                 /\ rs[i].hook \in 1..Len(hs)
                 /\ hs[rs[i].hook].enabled
                 /\ rs[i].success <=> (last_events[rs[i].hook] \in SuccessReturns)
           /\ \A i, j \in 1..Len(rs) : i < j => rs[i].hook < rs[j].hook

\* console, file-append and webhook hooks, the webhook request timing out:
\* the results are success, success, failure
C25_Witness ==
    /\ last_exec.called
    /\ Len(last_exec.hooks) = 3
    /\ \A i \in 1..3 : last_exec.hooks[i].enabled
    /\ last_exec.hooks[1].kind = "console_log"
    /\ last_exec.hooks[2].kind = "file_append"
    /\ last_exec.hooks[3].kind = "webhook"
    /\ last_events = <<"done", "done", "Timeout">>
    /\ Len(last_exec.results) = 3
    /\ last_exec.results[1].success
    /\ last_exec.results[2].success
    /\ ~last_exec.results[3].success /\ ~last_exec.results[3].raised

\* ----------------------------------------------------- claims: C26, C27
\* C26: a hook entry whose type is unknown or missing is rejected when the
\* hooks are constructed: create_hook raises for it, exactly the entries
\* for which a hook was made are registered, and every hook registered or
\* executed is of a known type.
C26_UnknownTypeRejected ==
    created.done =>
        /\ \A i \in 1..Len(created.log) :
              created.log[i].entry.type \notin HOOK_TYPES =>
                  created.log[i].out = "raised"
        /\ Len(hooks) = Cardinality({i \in 1..Len(created.log) :
                                        created.log[i].out = "hook"})
        /\ \A i \in 1..Len(hooks) : hooks[i].kind \in HOOK_TYPES
        /\ \A i \in 1..Len(last_exec.hooks) : last_exec.hooks[i].kind \in HOOK_TYPES

\* an enabled entry of an unknown type was rejected, the entry after it
\* gave a hook, and that hook has been executed
C26_Witness ==
    /\ created.done
    /\ Len(created.log) = 2
    /\ created.log[1].entry.type = "bogus"
    /\ created.log[1].entry.enabled
    /\ created.log[1].out = "raised"
    /\ created.log[2].out = "hook"
    /\ Len(hooks) = 1
    /\ last_exec.called
    /\ last_exec.invoked = <<1>>

\* C27: a disabled hook entry and a disabled subsystem are no-ops, never
\* errors: for an entry with enabled=false create_hook returns no hook and
\* raises nothing, with the subsystem disabled no hook is registered and no
\* context is created or executed, and a registered hook that is not
\* enabled is not invoked.
C27_DisabledIsNoOp ==
    created.done =>
        /\ \A i \in 1..Len(created.log) :
              ~created.log[i].entry.enabled => created.log[i].out = "none"
        /\ ~created.enabled =>
              (hooks = <<>> /\ contexts = <<>> /\ ~last_exec.called)
        /\ \A i \in 1..Len(last_exec.invoked) :
              last_exec.hooks[last_exec.invoked[i]].enabled

\* ---------------------------------------------------------- claims: C28
\* a session (the capture was started) has ended
SessionEnded == session >= 1 /\ pc \in {"exit0", "exit1", "returned"}

\* C28: the batch formats are written exactly once per session, at its end,
\* from the full entry list: a session that has ended has written them once
\* with every entry accumulated, and nothing is written to them before.
C28_BatchFormatsOnceAtShutdown ==
    /\ SessionEnded => (Len(batch) = 1 /\ batch[1] = entries)
    /\ pc \in InTry => batch = <<>>
    /\ Len(batch) <= 1

\* ---------------------------------------------------------- claims: C29
\* C29: a crash never loses a line that was displayed: in every state, each
\* result that has been shown on the live display has its line written and
\* flushed in the timestamped file.
C29_DisplayedIsDurable ==
    \A i \in 1..Len(sinklog) :
        (sinklog[i].sink = "display" /\ sinklog[i].ok) =>
            \E j \in 1..Len(ts_lines) : ts_lines[j].chunk = sinklog[i].chunk

\* ---------------------------------------------------------- claims: C30
\* the devices a capture can read from, and those of them with a virtual
\* loopback name
WithInput == {i \in 1..Len(devices) : devices[i].max_input_channels > 0}
VirtualWithInput == {i \in WithInput : devices[i].blackhole \/ devices[i].keyword}

\* C30: auto-detection selects a virtual loopback device that has input
\* channels when there is one, otherwise any device that has input
\* channels, and fails only when no device has input channels; a device
\* selected by index that has no input channels is rejected.
C30_AutoDetectPrefersLoopback ==
    /\ (device.req = AutoDetect /\ device.status # "unset") =>
          /\ device.status = "ok" <=> WithInput # {}
          /\ device.status = "ok" => device.index \in WithInput
          /\ (device.status = "ok" /\ VirtualWithInput # {}) =>
                device.index \in VirtualWithInput
    /\ (device.req # AutoDetect /\ device.status = "ok") =>
          device.index \in WithInput

\* ---------------------------------------------------------- claims: C31
\* C31: every chunk handed to a backend yields at most one result: a
\* transcribe_audio call returns once (None or one result), there is at
\* most one call per chunk, transcribe_chunk_stream yields at most once for
\* an input chunk, and no result is yielded or returned twice, late
\* WebSocket responses included.
C31_AtMostOneResultPerChunk ==
    /\ Len(returns) <= Len(calls)
    /\ \A i, j \in 1..Len(calls) : i # j => calls[i] # calls[j]
    /\ \A i, j \in 1..Len(returns) :
          i # j => /\ returns[i].chunk # returns[j].chunk
                   /\ (~returns[i].res.none /\ ~returns[j].res.none) =>
                         returns[i].res.src # returns[j].res.src
    /\ \A i, j \in 1..Len(yielded) :
          i # j => /\ yielded[i].chunk # yielded[j].chunk
                   /\ yielded[i].src # yielded[j].src

\* the WebSocket stream has yielded, for its second chunk, the late response
\* to its first
C31_Witness ==
    /\ config.backend = "websocket"
    /\ config.api = "stream"
    /\ Len(returns) = 2
    /\ returns[1].fail = "ws_timeout"
    /\ \E i \in 1..Len(yielded) : yielded[i].chunk = 2 /\ yielded[i].src = 1

\* ---------------------------------------------------------- claims: C32
\* the POST /transcribe requests made for chunk c
PostsFor(c) == {k \in 1..Len(posts) : posts[k].chunk = c}

\* C32: HTTP backend: no retry at the backend layer. Every request belongs
\* to a transcribe_audio call, no call has made more than one request, and
\* the call whose request timed out returned None without another request,
\* as a call does after any other failure: nothing was yielded for it and
\* the backend is still loaded and running.
C32_NoRetryOnTimeout ==
    config.backend = "http" =>
        /\ \A k \in 1..Len(posts) :
              \E i \in 1..Len(calls) : calls[i] = posts[k].chunk
        /\ \A c \in 1..Len(emitted) : Cardinality(PostsFor(c)) <= 1
        /\ \A k \in 1..Len(posts) :
              posts[k].exc = "Timeout" =>
                  /\ pc # "fatal"
                  /\ is_loaded
                  /\ \E j \in 1..Len(returns) :
                        /\ returns[j].chunk = posts[k].chunk
                        /\ returns[j].res = None
                        /\ returns[j].fail = "Timeout"
                  /\ \A j \in 1..Len(yielded) :
                        yielded[j].chunk # posts[k].chunk

\* the first request timed out and its call returned None; the call for the
\* next chunk made its own request
C32_Witness ==
    /\ config.backend = "http"
    /\ Len(posts) = 2
    /\ posts[1].chunk = 1 /\ posts[1].exc = "Timeout"
    /\ returns[1].res = None
    /\ posts[2].chunk = 2

\* ---------------------------------------------------------- claims: C33
\* r is None, or its text is empty or white space only
Blank(r) == r.none \/ Strip(r.text) = <<>>

\* C33: transcribe_chunk_stream yields only results whose trimmed text is
\* not empty: the result it has just yielded is one, and nothing was
\* yielded for a chunk whose transcribe_audio call returned None, an empty
\* text or a text of white space only.
C33_YieldsOnlyNonBlank ==
    config.api = "stream" =>
        /\ pc = "body" => ~Blank(result)
        /\ \A i \in 1..Len(returns) :
              Blank(returns[i].res) =>
                  \A j \in 1..Len(yielded) :
                      yielded[j].chunk # returns[i].chunk

\* the call for the first chunk returned a text of white space only, which
\* was not yielded, and the result of the second chunk has been yielded
C33_Witness ==
    /\ config.api = "stream"
    /\ Len(returns) = 2
    /\ ~returns[1].res.none /\ returns[1].res.text = <<" ">>
    /\ pc = "body"
    /\ Len(yielded) = 1 /\ yielded[1].chunk = 2

\* ---------------------------------------------------------- claims: C34
\* the texts ts, each trimmed, with one space between two neighbours
RECURSIVE TrimmedWithSpaces(_)
TrimmedWithSpaces(ts) ==
    IF ts = <<>> THEN <<>>
    ELSE LET init == TrimmedWithSpaces(SubSeq(ts, 1, Len(ts) - 1)) IN
         IF Len(ts) = 1 THEN Strip(ts[1])
         ELSE init \o <<" ">> \o Strip(ts[Len(ts)])

\* C34: the local backend merges the segments of one chunk into a single
\* result whose text is the segments' trimmed texts joined by single
\* spaces, whose start_time is the first segment's start and whose end_time
\* is the last segment's end.
C34_SegmentsMerged ==
    merged.status = "result" =>
        /\ segments # <<>>
        /\ merged.text = TrimmedWithSpaces(SegmentTexts(segments))
        /\ merged.start_time = segments[1].start
        /\ merged.end_time = segments[Len(segments)].end

\* segments hello/0-1 and world/1-2 have given 'hello world', 0, 2
C34_Witness ==
    /\ segments = <<[text |-> <<"hello">>, start |-> 0, end |-> 1],
                    [text |-> <<" ", "world">>, start |-> 1, end |-> 2]>>
    /\ merged = [status |-> "result", text |-> <<"hello", " ", "world">>,
                 start_time |-> 0, end_time |-> 2]

\* ---------------------------------------------------------- claims: C35
\* what a sample of the chunk is divided by before the conversion: the peak
\* when it exceeds 1, else 1
Divisor == IF Peak(audio_data) > Unit THEN Peak(audio_data) ELSE Unit

\* C35: round trip of the remote audio encoding. The 16-bit samples the
\* client makes of a float chunk are as many as the chunk's samples, each
\* within the signed 16-bit range and less than one step away from the
\* (rescaled) sample times 32767, so that nothing overflowed or wrapped
\* around; and the server decodes the payload to the same 16-bit samples in
\* the same order.
C35_EncodeDecodeRoundTrip ==
    payload.status = "ok" =>
        /\ Len(payload.pcm) = Len(audio_data)
        /\ \A i \in 1..Len(audio_data) :
              /\ payload.pcm[i] \in -32768..32767
              /\ Abs(payload.pcm[i] * Divisor - audio_data[i] * PcmScale)
                    < Divisor
        /\ decoded.status # "unset" =>
              /\ decoded.status = "ok"
              /\ decoded.samples = payload.pcm

\* a chunk whose peak is 2.0 was rescaled: its samples -2.0 and 0.5 became
\* -32767 and 8191, and the server has decoded them
C35_Witness ==
    /\ audio_data = <<-2 * Unit, Unit \div 2>>
    /\ payload.status = "ok"
    /\ decoded.status = "ok"
    /\ decoded.samples = <<-32767, 8191>>

\* ---------------------------------------------------------- claims: C36
\* C36: the SRT and the VTT export of a session hold one cue for every
\* result the session has recorded: every entry the live pipeline has
\* written carries a start and an end time, so no entry is skipped.
C36_ExportsHaveEveryResult ==
    \A k \in 1..Len(batch) :
        /\ \A i \in 1..Len(batch[k]) : HasTimes(batch[k][i])
        /\ Len(WriteSrt(batch[k])) = Len(batch[k])
        /\ Len(WriteVtt(batch[k])) = Len(batch[k])

\* ---------------------------------------------------------- claims: C37
\* the step takes a request off the pending ones of a connection that stays
\* open: the server has answered it
Answered == Len(pending') < Len(pending) /\ conns' = conns /\ ws' = ws

\* C37: WebSocket mode. The reader thread enqueues only results that are
\* not None and have a text, so an answer that decodes to None (success
\* false, or an empty text) leaves the queue as it was; and the call that
\* waits for its answer returns None only by the timeout of an empty queue.
C37_FailedResponseDropped ==
    [][/\ \A i \in 1..Len(ws_queue') :
             ~ws_queue'[i].none /\ ws_queue'[i].text # <<>>
       /\ Answered => \/ ws_queue' = ws_queue
                      \/ /\ Len(ws_queue') = Len(ws_queue) + 1
                         /\ ~ws_queue'[Len(ws_queue')].none
       /\ (pc = "ws_wait" /\ pc' # "ws_wait" /\ result' = None) =>
             /\ ws_queue = <<>>
             /\ TimedOut(returns')]_vars

\* the server has answered the only request, nothing was enqueued, and the
\* call has timed out on a connection that is still open
C37_Witness ==
    /\ config.backend = "websocket"
    /\ Len(calls) = 1
    /\ TimedOut(returns)
    /\ conns = <<"open">>
    /\ pending = <<>>
    /\ ws_queue = <<>>

\* ---------------------------------------------------------- claims: C38
\* the step is a transcribe_audio call finding the remote backend not loaded
EntersUnloaded ==
    pc = "t_enter" /\ pc' # "t_enter" /\ config.backend # "local" /\ ~is_loaded

\* C38: remote backend: a transcribe_audio call that finds the backend not
\* loaded probes the server first, in every such call; when the probe fails
\* the call returns None, no transcribe request is sent, no WebSocket is
\* opened and is_loaded stays false.
C38_FailedProbeReturnsNone ==
    [][EntersUnloaded =>
          /\ loads' # <<>>
          /\ loads'[1].probed /\ ~loads'[1].was_loaded
          /\ ~loads'[1].ret =>
                /\ result' = None
                /\ pc' = ReturnTo
                /\ Len(returns') = Len(returns) + 1
                /\ returns'[Len(returns')].fail = "load"
                /\ ~is_loaded'
                /\ UNCHANGED <<posts, conns, ws, ws_running, pending>>
          /\ loads'[1].ret => (is_loaded' /\ pc' = "t_body")]_vars

\* two calls in a row have found the WebSocket backend not loaded and have
\* returned None after a failed probe
C38_Witness ==
    /\ config.backend = "websocket"
    /\ Len(returns) = 2
    /\ returns[1].fail = "load" /\ returns[2].fail = "load"
    /\ ~is_loaded
    /\ loads # <<>> /\ loads[1].probed /\ ~loads[1].ret
    /\ posts = <<>> /\ conns = <<>>

\* ---------------------------------------------------------- claims: C39
\* C39: the entry list of the FileWriter and its timestamped file are in
\* step: the file holds one line for each entry of the list, in the same
\* order, also when open_file failed or the file is closed.
C39_EntriesMatchFile ==
    /\ Len(ts_lines) = Len(entries)
    /\ \A i \in 1..Len(ts_lines) :
          /\ ts_lines[i].chunk = entries[i].chunk
          /\ ts_lines[i].text = entries[i].text

\* ---------------------------------------------------------- claims: C40
\* an entry of a known type that is enabled
ValidEnabled(l) == l.entry.type \in HOOK_TYPES /\ l.entry.enabled

\* C40: create_hooks_from_config isolates bad entries. With the subsystem
\* enabled, the set-up has come to its end whatever the entries; an entry
\* whose construction failed gave no hook; every enabled entry of a known
\* type gave one; and the hooks registered are those entries' hooks, in the
\* order of the entries.
C40_BadEntriesIsolated ==
    (created.done /\ created.enabled) =>
        LET good == SelectSeq(created.log, ValidEnabled) IN
        /\ \A i \in 1..Len(created.log) :
              /\ created.log[i].out \in {"raised", "none", "hook"}
              /\ ValidEnabled(created.log[i]) <=> created.log[i].out = "hook"
        /\ Len(hooks) = Len(good)
        /\ \A k \in 1..Len(hooks) :
              /\ hooks[k].kind = good[k].entry.type
              /\ hooks[k].enabled = good[k].entry.cfg_enabled

\* create_hook raised for the first entry, which has no type, and the
\* second entry gave the one hook that is registered
C40_Witness ==
    /\ created.done /\ created.enabled
    /\ Len(created.log) = 2
    /\ created.log[1].entry.type = "missing"
    /\ created.log[1].out = "raised"
    /\ ValidEnabled(created.log[2])
    /\ Len(hooks) = 1
    /\ hooks[1].kind = created.log[2].entry.type

=============================================================================
